---- MODULE Spec2Model ----
(***************************************************************************)
(* Document ingestion pipeline of the supabase-rag application: file       *)
(* upload (lib/actions.ts uploadFileDocument), the ingestion route handler *)
(* POST of the process-document API route, and the process_document edge   *)
(* function, all acting on the rows of the "documents" and "chunks"        *)
(* tables; the embedding call and the retrieval of                         *)
(* lib/supabase-functions.ts; the chat answer of lib/actions.ts            *)
(* (generateChatResponse) and its display by the ChatMessage component.    *)
(***************************************************************************)
EXTENDS Integers, Sequences, FiniteSets, TLC

\* ---------------------------------------------------------------- bounds
MaxChunks == 4      \* chunks the splitter can return for one document
MaxStored == 4      \* chunks the vector store ranks for one query
MaxMatchCount == 2  \* values of the match_count setting that are followed
MaxPieces == 3      \* pieces of text a completion is put together from
MaxClock == 1       \* milliseconds the clock can advance

\* ------------------------------------------------------ program constants
BATCH_SIZE == 3
SIM_CHUNKS == 10
MAX_TEXT_LENGTH == 6000
MAX_RETRIES == 5
SHORTER_TEXT_LENGTH == 2000

\* The document ids: the rows are independent of each other, one is followed
Docs == {"doc1"}
\* The ingestion requests: the one the upload triggers, served by the
\* process_document edge function, and one POST to the route handler
Runs == {"trigger", "post"}
\* The generateChatResponse calls of one conversation
Calls == {"call1", "call2"}

VARIABLES
  documents,   \* the "documents" table: id -> [content, metadata]
  chunks,      \* the "chunks" table: set of rows [document_id, run, idx]
  uploads,     \* uploadFileDocument calls, one per document id
  runs,        \* the state of each ingestion request
  embed,       \* one generateEmbedding call
  retrieval,   \* one retrieveRelevantDocuments call
  chat,        \* the generateChatResponse calls
  messages,    \* the "messages" table: the rows of the conversation
  conversation, \* the row of the conversation in the "conversations" table
  now,         \* the clock read by Date.now()
  view,         \* the ChatMessage component showing one assistant message
  chunking, \* one document text on its way from extraction to a citation
  deletion, \* one deleteDocument call and a run inserting chunks beside it
  settings, \* the rag_settings row, the updateRagSettings calls and a chunking run
  storage, \* the module-level useMockStorage and the requests that upload
  toc, \* one chunk text on its way through the two noise filters
  sidebar   \* the CitationSidebar component and its document fetches

vars ==
  <<documents, chunks, uploads, runs, embed, retrieval,
    chat, messages, conversation, now, view, chunking, deletion, settings, storage, toc, sidebar>>

\* the sub-models that stand apart from ingestion, retrieval and chat
sideVars == <<chunking, deletion, settings, storage, toc, sidebar>>

\* the tables and requests of the ingestion pipeline
ingestVars == <<documents, chunks, uploads, runs>>

\* what the ingestion pipeline's steps leave alone
others ==
  <<embed, retrieval, chat, messages, conversation, now, view, sideVars>>

\* the chat calls, their tables, the clock and the component
chatVars == <<chat, messages, conversation, now, view>>

\* what a generateEmbedding call leaves alone
exceptEmbed == <<ingestVars, retrieval, chatVars, sideVars>>

\* what a retrieveRelevantDocuments call leaves alone
exceptRetrieval == <<ingestVars, embed, chatVars, sideVars>>

\* what a chat call and the component leave alone
exceptChat == <<ingestVars, embed, retrieval, sideVars>>

\* no generateEmbedding call under way
IdleEmbed ==
  [pc |-> "idle", text |-> 0, processedText |-> 0, production |-> FALSE,
   retries |-> 0, attempts |-> 0, calls |-> 0, succeeded |-> FALSE,
   shrunk |-> FALSE, result |-> "none"]

\* no retrieveRelevantDocuments call under way
IdleRetrieval ==
  [pc |-> "idle", match_count |-> 0, store |-> <<>>, chunks |-> <<>>,
   results |-> <<>>, filteredResults |-> <<>>, returned |-> <<>>]

\* a citations value: null, or an array of citations
NullCitations == [isNull |-> TRUE, list |-> <<>>]

\* no generateChatResponse call under way
IdleChat ==
  [pc |-> "idle", query |-> "", pieces |-> <<>>, nonTocDocs |-> <<>>,
   citations |-> <<>>, response |-> <<>>,
   returned |-> [content |-> <<>>, citations |-> <<>>]]

\* no message handed to the component
IdleView ==
  [pc |-> "idle", message |-> [content |-> <<>>, citations |-> NullCitations],
   referenced |-> <<>>, processedContent |-> <<>>, paragraph |-> <<>>,
   sources |-> <<>>, reads |-> {}]

\* no text extracted
IdleChunking ==
  [pc |-> "idle", extractedText |-> <<>>, content |-> <<>>, docs |-> <<>>,
   rows |-> <<>>, citation |-> [text |-> <<>>, originalText |-> <<>>]]

\* no deleteDocument call
IdleDeletion ==
  [pc |-> "idle", id |-> "", next |-> 1, refused |-> 0, cascaded |-> 0]

\* the settings row as the schema creates it, no call made
IdleSettings ==
  [pc |-> "idle",
   stored |-> [match_threshold |-> 70, match_count |-> 5,
               chunk_size |-> 1000, chunk_overlap |-> 200],
   calls |-> 0, input |-> <<>>, before |-> <<>>, result |-> "none",
   splitter |-> <<>>]

\* the storage module as loaded, no request
IdleStorage ==
  [useMockStorage |-> FALSE,
   requests |-> [r \in {"req1", "req2"} |->
      [pc |-> "idle", initialized |-> "none", store |-> "none",
       fileUrl |-> "none"]]]

\* no text handed to the filters
IdleToc ==
  [pc |-> "idle", lines |-> <<>>, likely |-> FALSE, isTableOfContents |-> FALSE,
   kept |-> FALSE]

\* no chat page open
IdleSidebar ==
  [pc |-> "idle", citation |-> "none", document |-> "none",
   formattedText |-> [of |-> "none", as |-> "empty"], loading |-> FALSE,
   error |-> FALSE, fetches |-> <<>>]

\* no chat call, an empty conversation
NoChat ==
  /\ chat = [c \in Calls |-> IdleChat]
  /\ messages = <<>>
  /\ conversation = [title |-> "New Conversation", updated_at |-> 0]
  /\ now = 0
  /\ view = IdleView

\* none of the other sub-models has started
NoSide ==
  /\ chunking = IdleChunking
  /\ deletion = IdleDeletion
  /\ settings = IdleSettings
  /\ storage = IdleStorage
  /\ toc = IdleToc
  /\ sidebar = IdleSidebar

\* ------------------------------------------------------------ JS helpers
\* Object spread {...a, ...b}: keys of b win.
Merge(a, b) ==
  [k \in (DOMAIN a) \cup (DOMAIN b) |-> IF k \in DOMAIN b THEN b[k] ELSE a[k]]

Has(m, k) == k \in DOMAIN m

EmptyObj == [k \in {} |-> ""]

\* new Date().toISOString(): the value is not compared anywhere
Now == "ts"

\* Math.floor in place of Math.round
RoundPercent_Floor(num, den) == (100 * num) \div den

\* Math.round(x) for x = (num / den) * 100 >= 0: floor(x + 1/2)
RoundPercent(num, den) == (200 * num + den) \div (2 * den)

Min(a, b) == IF a < b THEN a ELSE b

\* `processed ${successCount} of ${chunks.length} chunks`
ProcessedOf(s, n) ==
  "processed " \o ToString(s) \o " of " \o ToString(n) \o " chunks"

\* supabase.from("documents").update(patch).eq("id", d): sets the columns of
\* the patch on the matching row, no row matched is not an error
UpdateDoc(docs, d, patch) ==
  IF d \in DOMAIN docs THEN [docs EXCEPT ![d] = Merge(@, patch)] ELSE docs

\* ---------------------------------------------------------------- upload
FileTypes == {"pdf", "txt"}

IdleUpload == [pc |-> "start", snap |-> EmptyObj]

\* the uploaded file's name: its extension decides the file type
FileNameOf(fileType) == "file." \o fileType

\* getFileTypeFromName: the type of the extension (document loaders 23-47)
GetFileTypeFromName(fileName) ==
  CHOOSE t \in FileTypes : fileName = FileNameOf(t)

\* lib/actions.ts 186-203: insert the row with minimal metadata
InsertMetadata(fileType) ==
  [type |-> fileType, fileName |-> FileNameOf(fileType),
   sanitizedFileName |-> FileNameOf(fileType),
   size |-> 1, processingStatus |-> "pending", processingProgress |-> 0,
   uploadedAt |-> Now]

UploadInsert(d) ==
  /\ uploads[d].pc = "start"
  /\ d \notin DOMAIN documents
  /\ \E fileType \in FileTypes, docError \in BOOLEAN :
       IF docError
       THEN /\ uploads' = [uploads EXCEPT ![d].pc = "failed"]
            /\ UNCHANGED documents
       ELSE /\ documents' =
                 [e \in (DOMAIN documents) \cup {d} |->
                    IF e = d
                    THEN [content |-> "", metadata |-> InsertMetadata(fileType)]
                    ELSE documents[e]]
            /\ uploads' = [uploads EXCEPT
                 ![d] = [pc |-> "inserted", snap |-> InsertMetadata(fileType)]]
  /\ UNCHANGED <<chunks, runs>>
  /\ UNCHANGED others

\* lib/supabase/storage.ts uploadDocumentToStorage: the public URL of the
\* bucket, the mock-storage:// URL of the fallback, or an exception
StorageOutcomes == {"https", "mock-storage", "throw"}

\* lib/actions.ts 210-227 and 245-250
UploadStore(d) ==
  /\ uploads[d].pc = "inserted"
  /\ \E fileUrl \in StorageOutcomes :
       IF fileUrl = "throw"
       THEN /\ uploads' = [uploads EXCEPT ![d].pc = "failed"]
            /\ UNCHANGED documents
       ELSE /\ documents' = UpdateDoc(documents, d,
                 [metadata |-> Merge(uploads[d].snap,
                    [fileUrl |-> fileUrl, processingStatus |-> "uploaded"])])
            /\ uploads' = [uploads EXCEPT ![d].pc = "uploaded"]
  /\ UNCHANGED <<chunks, runs>>
  /\ UNCHANGED others

\* ------------------------------------------------- upload API route (POST)
\* upload route 95-137: the same insert as uploadFileDocument
ApiUploadInsert(d) ==
  /\ uploads[d].pc = "start"
  /\ d \notin DOMAIN documents
  /\ \E fileType \in FileTypes, docError \in BOOLEAN :
       IF docError
       THEN /\ uploads' = [uploads EXCEPT ![d].pc = "api_failed"]
            /\ UNCHANGED documents
       ELSE /\ documents' =
                 [e \in (DOMAIN documents) \cup {d} |->
                    IF e = d
                    THEN [content |-> "", metadata |-> InsertMetadata(fileType)]
                    ELSE documents[e]]
            /\ uploads' = [uploads EXCEPT
                 ![d] = [pc |-> "api_inserted", snap |-> InsertMetadata(fileType)]]
  /\ UNCHANGED <<chunks, runs>>
  /\ UNCHANGED others

\* upload route 139-193: store the bytes and mark the row uploaded; a storage
\* exception is recorded on the row, merged into the inserted metadata. The
\* route triggers no ingestion.
ApiUploadStore(d) ==
  /\ uploads[d].pc = "api_inserted"
  /\ \E fileUrl \in StorageOutcomes :
       IF fileUrl = "throw"
       THEN /\ documents' = UpdateDoc(documents, d,
                 [metadata |-> Merge(uploads[d].snap,
                    [processingStatus |-> "error",
                     processingError |-> "Failed to upload to storage",
                     errorTimestamp |-> Now])])
            /\ uploads' = [uploads EXCEPT ![d].pc = "api_failed"]
       ELSE /\ documents' = UpdateDoc(documents, d,
                 [metadata |-> Merge(uploads[d].snap,
                    [fileUrl |-> fileUrl, processingStatus |-> "uploaded"])])
            /\ uploads' = [uploads EXCEPT ![d].pc = "api_uploaded"]
  /\ UNCHANGED <<chunks, runs>>
  /\ UNCHANGED others

\* -------------------------------------------------------------- ingestion
IdleRun ==
  [pc |-> "idle", doc |-> "none", snap |-> EmptyObj,
   extracted |-> EmptyObj, bodyUsed |-> FALSE, n |-> 0, i |-> 0,
   successCount |-> 0, task |-> <<>>, failure |-> "none"]

\* the handler that serves a request
VariantOf(r) == IF r = "trigger" THEN "edge" ELSE "api"

\* A handler that has left its try block, or has returned, holds no locals
Leave(run, pc, failure) ==
  [IdleRun EXCEPT !.pc = pc, !.doc = run.doc,
     !.bodyUsed = run.bodyUsed, !.failure = failure]

\* route handler 14-40: the request body is read, then the document row
ReadDocument(r, d) ==
  /\ VariantOf(r) = "api"
  /\ runs[r].pc = "idle"
  /\ IF d \in DOMAIN documents
     THEN runs' = [runs EXCEPT ![r] =
            [IdleRun EXCEPT !.pc = "read", !.doc = d, !.bodyUsed = TRUE,
               !.snap = documents[d].metadata]]
     ELSE runs' = [runs EXCEPT ![r] =
            [IdleRun EXCEPT !.pc = "done", !.doc = d, !.bodyUsed = TRUE,
               !.failure = "not_found"]]
  /\ UNCHANGED <<documents, chunks, uploads>>
  /\ UNCHANGED others

\* the trigger's failure thrown to the caller of the upload
TriggerDocumentProcessing_Throwing(d) ==
  /\ uploads[d].pc = "uploaded"
  /\ \/ /\ uploads' = [uploads EXCEPT ![d].pc = "failed"]
        /\ UNCHANGED runs
     \/ \E r \in Runs :
          /\ VariantOf(r) = "edge"
          /\ runs[r].pc = "idle"
          /\ uploads' = [uploads EXCEPT ![d].pc = "triggered"]
          /\ runs' = [runs EXCEPT ![r] =
               [IdleRun EXCEPT !.pc = "read", !.doc = d, !.bodyUsed = TRUE,
                  !.snap = documents[d].metadata]]
  /\ UNCHANGED <<documents, chunks>>
  /\ UNCHANGED others

\* lib/actions.ts 229-240, 254-297: the unawaited trigger of a finished
\* upload posts to the process_document edge function, or fails and is
\* logged; edge function 16-87: the body is read, then the document row
TriggerDocumentProcessing(d) ==
  /\ uploads[d].pc = "uploaded"
  /\ \/ /\ uploads' = [uploads EXCEPT ![d].pc = "trigger_failed"]
        /\ UNCHANGED runs
     \/ \E r \in Runs :
          /\ VariantOf(r) = "edge"
          /\ runs[r].pc = "idle"
          /\ uploads' = [uploads EXCEPT ![d].pc = "triggered"]
          /\ runs' = [runs EXCEPT ![r] =
               [IdleRun EXCEPT !.pc = "read", !.doc = d, !.bodyUsed = TRUE,
                  !.snap = documents[d].metadata]]
  /\ UNCHANGED <<documents, chunks>>
  /\ UNCHANGED others

\* route handler 42-51, edge function 89-99
WriteProcessing(r) ==
  /\ runs[r].pc = "read"
  /\ documents' = UpdateDoc(documents, runs[r].doc,
       [metadata |-> Merge(runs[r].snap, [processingStatus |-> "processing"])])
  /\ runs' = [runs EXCEPT ![r].pc = "fetch"]
  /\ UNCHANGED <<chunks, uploads>>
  /\ UNCHANGED others

\* ------------------------------------------- route handler (process-document)
\* parseDocument: the metadata it can return for a file type (document
\* loaders 69-129): for a pdf the first page's loader metadata and the page
\* count, or nothing when the loader returns no page; for a text file the type
ExtractedMetadata(fileType) ==
  IF fileType = "pdf"
  THEN {[source |-> "tmp.pdf", pageCount |-> 2], EmptyObj}
  ELSE {[type |-> fileType]}

\* fetch(fileUrl) rejects for an undefined URL and for a URL whose scheme it
\* does not know (mock-storage://); for an http(s) URL it rejects on a network
\* failure and otherwise resolves (the response status is not looked at)
FetchResults(snap) ==
  IF Has(snap, "fileUrl") /\ snap.fileUrl = "https"
  THEN {"throw", "response"}
  ELSE {"throw"}

\* route handler 53-82: fetch the bytes, parse, normalize, store the text
FetchAndParse(r) ==
  /\ runs[r].pc = "fetch"
  /\ VariantOf(r) = "api"
  /\ LET snap == runs[r].snap
         fileType == IF Has(snap, "type") THEN snap.type
                     ELSE GetFileTypeFromName(snap.fileName)
     IN \E fetched \in FetchResults(snap), parsed \in {"throw", "ok"},
           extractedMetadata \in ExtractedMetadata(fileType) :
          IF fetched = "throw" \/ parsed = "throw"
          THEN /\ runs' = [runs EXCEPT ![r] = Leave(runs[r], "catch",
                    IF fetched = "throw" THEN "fetch" ELSE "parse")]
               /\ UNCHANGED documents
          ELSE /\ documents' = UpdateDoc(documents, runs[r].doc,
                    [content |-> "normalizedText",
                     metadata |-> Merge(Merge(snap, extractedMetadata),
                                        [processingStatus |-> "chunking"])])
               /\ runs' = [runs EXCEPT ![r].pc = "chunk",
                    ![r].extracted = extractedMetadata]
  /\ UNCHANGED <<chunks, uploads>>
  /\ UNCHANGED others

\* route handler 84-104: split into chunks, set the status to embedding
ChunkDocument(r) ==
  /\ runs[r].pc = "chunk"
  /\ \/ /\ runs' = [runs EXCEPT ![r] = Leave(runs[r], "catch", "chunk")]
        /\ UNCHANGED documents
     \/ \E n \in 0 .. MaxChunks :
          /\ documents' = UpdateDoc(documents, runs[r].doc,
               [metadata |-> Merge(Merge(runs[r].snap, runs[r].extracted),
                  [processingStatus |-> "embedding", totalChunks |-> n])])
          /\ runs' = [runs EXCEPT ![r].pc = "loop", ![r].n = n, ![r].i = 0,
               ![r].task = [c \in 1 .. n |-> "todo"]]
  /\ UNCHANGED <<chunks, uploads>>
  /\ UNCHANGED others

\* every remaining chunk at once
BatchOf_NoSlice(i, n) == (i + 1) .. n

\* chunks.slice(i, i + BATCH_SIZE), as 1-based chunk numbers
BatchOf(i, n) == (i + 1) .. Min(i + BATCH_SIZE, n)

\* route handler 107-111: the loop test and batchChunks.map(async ...), which
\* starts every chunk of the batch
StartBatch(r) ==
  /\ runs[r].pc = "loop"
  /\ runs[r].i < runs[r].n
  /\ runs' = [runs EXCEPT ![r].pc = "await",
       ![r].task = [c \in DOMAIN runs[r].task |->
          IF c \in BatchOf(runs[r].i, runs[r].n) THEN "inflight"
          ELSE runs[r].task[c]]]
  /\ UNCHANGED <<documents, chunks, uploads>>
  /\ UNCHANGED others

\* a chunk whose failure is not caught and rejects the batch
ProcessChunk_Propagating(r, c) ==
  /\ runs[r].pc = "await"
  /\ c \in DOMAIN runs[r].task
  /\ runs[r].task[c] = "inflight"
  /\ \E outcome \in {"embedding_throws", "insert_error", "ok"} :
       IF outcome = "ok"
       THEN /\ chunks' = chunks \cup
                 {[document_id |-> runs[r].doc, run |-> r, idx |-> c]}
            /\ runs' = [runs EXCEPT ![r].task[c] = "ok"]
       ELSE /\ runs' = [runs EXCEPT ![r] = Leave(runs[r], "catch", "chunk")]
            /\ UNCHANGED chunks
  /\ UNCHANGED <<documents, uploads>>
  /\ UNCHANGED others

\* route handler 112-135: one chunk of the batch: embed, insert, true/false
ProcessChunk(r, c) ==
  /\ runs[r].pc = "await"
  /\ c \in DOMAIN runs[r].task
  /\ runs[r].task[c] = "inflight"
  /\ \E outcome \in {"embedding_throws", "insert_error", "ok"} :
       IF outcome = "ok"
       THEN /\ chunks' = chunks \cup
                 {[document_id |-> runs[r].doc, run |-> r, idx |-> c]}
            /\ runs' = [runs EXCEPT ![r].task[c] = "ok"]
       ELSE /\ runs' = [runs EXCEPT ![r].task[c] = "failed"]
            /\ UNCHANGED chunks
  /\ UNCHANGED <<documents, uploads>>
  /\ UNCHANGED others

\* batchResults.length
BatchSuccesses_All(run) == Cardinality(BatchOf(run.i, run.n))

\* batchResults.filter(Boolean).length
BatchSuccesses(run) ==
  Cardinality({c \in BatchOf(run.i, run.n) : run.task[c] = "ok"})

\* route handler 138-158: Promise.all(batchPromises) resolves once every
\* chunk of the batch has returned; count, write the progress, next batch
FinishBatch(r) ==
  /\ runs[r].pc = "await"
  /\ \A c \in BatchOf(runs[r].i, runs[r].n) : runs[r].task[c] # "inflight"
  /\ LET successCount == runs[r].successCount + BatchSuccesses(runs[r])
     IN /\ documents' = UpdateDoc(documents, runs[r].doc,
             [metadata |-> Merge(Merge(runs[r].snap, runs[r].extracted),
                [processingStatus |-> ProcessedOf(successCount, runs[r].n),
                 processingProgress |-> RoundPercent(successCount, runs[r].n)])])
        /\ runs' = [runs EXCEPT ![r].pc = "loop",
             ![r].successCount = successCount,
             ![r].i = runs[r].i + BATCH_SIZE]
  /\ UNCHANGED <<chunks, uploads>>
  /\ UNCHANGED others

\* route handler 161-181: the final update
WriteComplete(r) ==
  /\ runs[r].pc = "loop"
  /\ runs[r].i >= runs[r].n
  /\ documents' = UpdateDoc(documents, runs[r].doc,
       [metadata |-> Merge(Merge(runs[r].snap, runs[r].extracted),
          [processingStatus |-> "complete", processingProgress |-> 100,
           totalChunks |-> runs[r].n,
           successfulChunks |-> runs[r].successCount,
           completedAt |-> Now])])
  /\ runs' = [runs EXCEPT ![r] = Leave(runs[r], "done", runs[r].failure)]
  /\ UNCHANGED <<chunks, uploads>>
  /\ UNCHANGED others

\* route handler 182-210 (edge function 220-258): the handler re-reads the
\* request body, whose stream the first request.json() has consumed: the
\* second request.json() rejects, the inner catch logs it, and the error
\* update is not made
CatchError(r) ==
  /\ runs[r].pc = "catch"
  /\ IF runs[r].bodyUsed
     THEN UNCHANGED documents
     ELSE documents' = UpdateDoc(documents, runs[r].doc,
            [metadata |-> [processingStatus |-> "error",
                           processingError |-> runs[r].failure,
                           errorTimestamp |-> Now]])
  /\ runs' = [runs EXCEPT ![r] = Leave(runs[r], "done", runs[r].failure)]
  /\ UNCHANGED <<chunks, uploads>>
  /\ UNCHANGED others

\* ------------------------------------------ edge function (process_document)
\* edge function 101-134: fetch the file; a response that is not ok is
\* recorded as an error and thrown
EdgeFetch(r) ==
  /\ runs[r].pc = "fetch"
  /\ VariantOf(r) = "edge"
  /\ \E fetched \in FetchResults(runs[r].snap) \cup
                    (IF Has(runs[r].snap, "fileUrl") /\ runs[r].snap.fileUrl = "https"
                     THEN {"not_ok"} ELSE {}) :
       CASE fetched = "throw" ->
              /\ runs' = [runs EXCEPT ![r] = Leave(runs[r], "catch", "fetch")]
              /\ UNCHANGED documents
         [] fetched = "not_ok" ->
              /\ documents' = UpdateDoc(documents, runs[r].doc,
                   [metadata |-> Merge(runs[r].snap,
                      [processingStatus |-> "error",
                       processingError |-> "Failed to fetch file",
                       errorTimestamp |-> Now])])
              /\ runs' = [runs EXCEPT ![r] = Leave(runs[r], "catch", "fetch_not_ok")]
         [] OTHER ->
              /\ runs' = [runs EXCEPT ![r].pc = "sim_parse"]
              /\ UNCHANGED documents
  /\ UNCHANGED <<chunks, uploads>>
  /\ UNCHANGED others

\* edge function 140-155
EdgeWriteChunking(r) ==
  /\ runs[r].pc = "sim_parse"
  /\ documents' = UpdateDoc(documents, runs[r].doc,
       [content |-> "Processed content would go here",
        metadata |-> Merge(runs[r].snap, [processingStatus |-> "chunking"])])
  /\ runs' = [runs EXCEPT ![r].pc = "sim_chunk"]
  /\ UNCHANGED <<chunks, uploads>>
  /\ UNCHANGED others

\* edge function 157-172
EdgeWriteEmbedding(r) ==
  /\ runs[r].pc = "sim_chunk"
  /\ documents' = UpdateDoc(documents, runs[r].doc,
       [metadata |-> Merge(runs[r].snap,
          [processingStatus |-> "embedding", totalChunks |-> SIM_CHUNKS])])
  /\ runs' = [runs EXCEPT ![r].pc = "sim_loop", ![r].i = 1]
  /\ UNCHANGED <<chunks, uploads>>
  /\ UNCHANGED others

\* edge function 174-190: for (let i = 1; i <= 10; i++)
EdgeProgress(r) ==
  /\ runs[r].pc = "sim_loop"
  /\ runs[r].i <= SIM_CHUNKS
  /\ documents' = UpdateDoc(documents, runs[r].doc,
       [metadata |-> Merge(runs[r].snap,
          [processingStatus |-> ProcessedOf(runs[r].i, SIM_CHUNKS),
           processingProgress |-> RoundPercent(runs[r].i, SIM_CHUNKS)])])
  /\ runs' = [runs EXCEPT ![r].i = runs[r].i + 1]
  /\ UNCHANGED <<chunks, uploads>>
  /\ UNCHANGED others

\* edge function 192-219
EdgeComplete(r) ==
  /\ runs[r].pc = "sim_loop"
  /\ runs[r].i > SIM_CHUNKS
  /\ documents' = UpdateDoc(documents, runs[r].doc,
       [metadata |-> Merge(runs[r].snap,
          [processingStatus |-> "complete", processingProgress |-> 100,
           totalChunks |-> SIM_CHUNKS, successfulChunks |-> SIM_CHUNKS,
           completedAt |-> Now])])
  /\ runs' = [runs EXCEPT ![r] = Leave(runs[r], "done", runs[r].failure)]
  /\ UNCHANGED <<chunks, uploads>>
  /\ UNCHANGED others

Init ==
  /\ documents = [d \in {} |-> EmptyObj]
  /\ chunks = {}
  /\ uploads = [d \in Docs |-> IdleUpload]
  /\ runs = [r \in Runs |-> IdleRun]
  /\ embed = IdleEmbed
  /\ retrieval = IdleRetrieval
  /\ NoChat
  /\ NoSide

Next ==
  \/ \E d \in Docs : UploadInsert(d)
  \/ \E d \in Docs : UploadStore(d)
  \/ \E d \in Docs : ApiUploadInsert(d)
  \/ \E d \in Docs : ApiUploadStore(d)
  \/ \E d \in Docs : TriggerDocumentProcessing(d)
  \/ \E r \in Runs, d \in Docs : ReadDocument(r, d)
  \/ \E r \in Runs : WriteProcessing(r)
  \/ \E r \in Runs : FetchAndParse(r)
  \/ \E r \in Runs : ChunkDocument(r)
  \/ \E r \in Runs : StartBatch(r)
  \/ \E r \in Runs, c \in 1 .. MaxChunks : ProcessChunk(r, c)
  \/ \E r \in Runs : FinishBatch(r)
  \/ \E r \in Runs : WriteComplete(r)
  \/ \E r \in Runs : CatchError(r)
  \/ \E r \in Runs : EdgeFetch(r)
  \/ \E r \in Runs : EdgeWriteChunking(r)
  \/ \E r \in Runs : EdgeWriteEmbedding(r)
  \/ \E r \in Runs : EdgeProgress(r)
  \/ \E r \in Runs : EdgeComplete(r)

Spec == Init /\ [][Next]_vars

\* a step of request r once its handler has read the document
RunStep(r) ==
  \/ WriteProcessing(r)
  \/ FetchAndParse(r)
  \/ ChunkDocument(r)
  \/ StartBatch(r)
  \/ \E c \in 1 .. MaxChunks : ProcessChunk(r, c)
  \/ FinishBatch(r)
  \/ WriteComplete(r)
  \/ CatchError(r)
  \/ EdgeFetch(r)
  \/ EdgeWriteChunking(r)
  \/ EdgeWriteEmbedding(r)
  \/ EdgeProgress(r)
  \/ EdgeComplete(r)

\* Every call a handler awaits returns or fails, so a handler whose next
\* step is possible takes it.
FairSpec == Spec /\ \A r \in Runs : WF_vars(RunStep(r))

\* ------------------------------------------------------ generateEmbedding
\* lengths of the texts handed to generateEmbedding, around its two limits;
\* a text is followed by its length, all the function looks at
TextLengths ==
  {1, SHORTER_TEXT_LENGTH, SHORTER_TEXT_LENGTH + 1,
   MAX_TEXT_LENGTH, MAX_TEXT_LENGTH + 1}

\* String.prototype.substring(0, n) on a text of the given length
SubstringLength(len, n) == Min(len, n)

\* one pass of the try block 213-235: initLangChain throws before the service
\* is called, the request throws, the 30 s timer wins the race, the result is
\* not a non-empty array, or a vector arrives
AttemptOutcomes == {"init_error", "error", "timeout", "invalid", "ok"}

\* supabase-functions.ts 245: the final retry shortens the text
ShouldShrink_Never(len, retries) == FALSE

\* supabase-functions.ts 245
ShouldShrink(len, retries) ==
  len > SHORTER_TEXT_LENGTH /\ retries = MAX_RETRIES

\* supabase-functions.ts 190-210: the call starts and caps the text
EmbedStart ==
  /\ embed.pc = "start"
  /\ embed' = [embed EXCEPT
       !.pc = "loop",
       !.processedText =
          IF embed.text > MAX_TEXT_LENGTH
          THEN SubstringLength(embed.text, MAX_TEXT_LENGTH)
          ELSE embed.text]
  /\ UNCHANGED exceptEmbed

\* supabase-functions.ts 212-260: one iteration of the retry loop, with its
\* catch block (the backoff wait of 255-258 changes nothing)
EmbedAttempt ==
  /\ embed.pc = "loop"
  /\ embed.retries < MAX_RETRIES
  /\ \E outcome \in AttemptOutcomes :
       LET called == IF outcome = "init_error" THEN 0 ELSE 1
           retries == embed.retries + 1
       IN  IF outcome = "ok"
           THEN embed' = [embed EXCEPT
                  !.pc = "return", !.succeeded = TRUE,
                  !.attempts = @ + 1, !.calls = @ + called]
           ELSE IF retries >= MAX_RETRIES
           THEN IF ShouldShrink(embed.processedText, retries)
                THEN embed' = [embed EXCEPT
                       !.processedText =
                          SubstringLength(@, SHORTER_TEXT_LENGTH),
                       !.retries = retries - 1, !.shrunk = TRUE,
                       !.attempts = @ + 1, !.calls = @ + called]
                ELSE embed' = [embed EXCEPT
                       !.pc = "catch", !.retries = retries,
                       !.attempts = @ + 1, !.calls = @ + called]
           ELSE embed' = [embed EXCEPT
                  !.retries = retries,
                  !.attempts = @ + 1, !.calls = @ + called]
  /\ UNCHANGED exceptEmbed

\* supabase-functions.ts 262-265
EmbedReturn ==
  /\ embed.pc = "return"
  /\ embed' = [embed EXCEPT !.pc = "done", !.result = "vector"]
  /\ UNCHANGED exceptEmbed

\* supabase-functions.ts 266-280: a random vector in production, the error
\* otherwise
EmbedCatch ==
  /\ embed.pc = "catch"
  /\ embed' = [embed EXCEPT
       !.pc = "done",
       !.result = IF embed.production THEN "fallback" ELSE "error"]
  /\ UNCHANGED exceptEmbed

\* one call, with any text and either value of NODE_ENV
InitEmbed ==
  /\ documents = [d \in {} |-> EmptyObj]
  /\ chunks = {}
  /\ uploads = [d \in Docs |-> IdleUpload]
  /\ runs = [r \in Runs |-> IdleRun]
  /\ retrieval = IdleRetrieval
  /\ NoChat
  /\ NoSide
  /\ \E text \in TextLengths, production \in BOOLEAN :
       embed = [IdleEmbed EXCEPT
          !.pc = "start", !.text = text, !.production = production]

NextEmbed ==
  \/ EmbedStart
  \/ EmbedAttempt
  \/ EmbedReturn
  \/ EmbedCatch

SpecEmbed == InitEmbed /\ [][NextEmbed]_vars

\* every step of a call completes: the request is raced against a timer and
\* the backoff is a timer
FairSpecEmbed == SpecEmbed /\ WF_vars(NextEmbed)

\* ------------------------------------------------- isLikelyTableOfContents
\* A text is the sequence of its whitespace-separated tokens, joined by one
\* whitespace character each.
\* tokens made of digits only: /^\d+$/
Numbers == {"1", "15", "42", "2020"}

\* tokens that contain a letter and a digit
LetterDigitTokens == {"Howlong1"}

\* tokens with a character outside \w
PunctuatedTokens == {"sat."}

\* /[a-zA-Z]/ on a token
HasLetter(w) == w \notin Numbers

\* /\d/ on a token
HasDigit(w) == w \in Numbers \cup LetterDigitTokens

\* the token is \w+ from its first to its last character
IsWordToken(w) == w \notin PunctuatedTokens

\* String.prototype.toLowerCase on a token (the i flag of the patterns)
ToLowerCase(w) ==
  CASE w = "Table" -> "table"
    [] w = "Contents" -> "contents"
    [] w = "The" -> "the"
    [] w = "Switch" -> "switch"
    [] w = "Yes" -> "yes"
    [] w = "Ladder" -> "ladder"
    [] OTHER -> w

\* the phrases of the patterns at 420 and 428, in lower case
TocPhrases ==
  {<<"conversation", "conversion", "strategies">>, <<"prospecting", "calls">>,
   <<"yes", "ladder">>, <<"memory", "anchor">>, <<"the", "switch">>,
   <<"clarifying", "questions">>, <<"whyisthatimportantnow">>,
   <<"howlonghasthisbeengoingonfor">>, <<"solution", "strategies">>,
   <<"green", "brain">>}

\* the phrase stands in the text from token i on
PhraseAt(text, phrase, i) ==
  /\ i + Len(phrase) - 1 <= Len(text)
  /\ \A j \in 1 .. Len(phrase) : ToLowerCase(text[i + j - 1]) = phrase[j]

ContainsPhrase(text, phrase) ==
  \E i \in 1 .. Len(text) : PhraseAt(text, phrase, i)

RECURSIVE NonSpaceChars(_)
\* text.replace(/\s/g, "").length
NonSpaceChars(text) ==
  IF text = <<>> THEN 0 ELSE Len(Head(text)) + NonSpaceChars(Tail(text))

\* text.length
TotalChars(text) ==
  IF text = <<>> THEN 0 ELSE NonSpaceChars(text) + Len(text) - 1

\* /(\w+\s+\d+\s+){3,}/: three token pairs in a row, each a word token and a
\* number followed by whitespace
CompactToc(text) ==
  \E i \in 1 .. Len(text) :
    /\ i + 6 <= Len(text)
    /\ \A k \in 0 .. 2 :
         /\ IsWordToken(text[i + 2 * k])
         /\ text[i + 2 * k + 1] \in Numbers

\* supabase-functions.ts 405-412
WordNumberPairs(text) ==
  Cardinality({i \in 1 .. Len(text) - 1 :
                 HasLetter(text[i]) /\ text[i + 1] \in Numbers})

\* text.split(/\s+/).length: the empty text splits into one empty word
WordCount(text) == IF text = <<>> THEN 1 ELSE Len(text)

\* supabase-functions.ts 381-436
IsLikelyTableOfContents(text) ==
  \/ ContainsPhrase(text, <<"table", "of", "contents">>)
  \/ Len(text) = 1 /\ ToLowerCase(text[1]) \in {"contents", "toc"}
  \/ /\ TotalChars(text) > 0
     /\ 10 * (TotalChars(text) - NonSpaceChars(text)) < TotalChars(text)
     /\ \E i \in 1 .. Len(text) : HasDigit(text[i])
  \/ CompactToc(text)
  \/ /\ WordNumberPairs(text) >= 3
     /\ 100 * WordNumberPairs(text) > 15 * WordCount(text)
  \/ \E phrase \in TocPhrases : ContainsPhrase(text, phrase)

\* ------------------------------------------------ retrieveRelevantDocuments
\* the chunk contents the vector store can hold
ChunkTexts ==
  {<<"the", "cat", "sat.">>,
   <<"in", "2020", "sales", "rose">>,
   <<"Table", "of", "Contents">>,
   <<"Chapter", "One", "1", "Chapter", "Two", "15", "Chapter", "Three", "42">>}

\* the rows of the store in the order of their similarity to the query
Rankings ==
  UNION {[1 .. n -> ChunkTexts] : n \in 0 .. MaxStored}

\* Array.prototype.slice(0, n)
Slice(seq, n) == SubSeq(seq, 1, Min(Len(seq), n))

\* the match_chunks function of the database: the match_count nearest rows
MatchChunks(store, match_count) ==
  Slice([i \in 1 .. Len(store) |->
           [content |-> store[i], document_id |-> "doc1",
            metadata |-> [chunkIndex |-> i]]],
        match_count)

RECURSIVE FilterNotToc(_)
\* supabase-functions.ts 367-370
FilterNotToc(seq) ==
  IF seq = <<>> THEN <<>>
  ELSE IF IsLikelyTableOfContents(Head(seq).pageContent)
       THEN FilterNotToc(Tail(seq))
       ELSE <<Head(seq)>> \o FilterNotToc(Tail(seq))

\* supabase-functions.ts 326-349: embed the query and ask the store for twice
\* match_count rows; either call can fail, and the error is rethrown
RetrieveQuery ==
  /\ retrieval.pc = "start"
  /\ \E outcome \in {"embedding_throws", "rpc_error", "ok"} :
       IF outcome = "ok"
       THEN retrieval' = [retrieval EXCEPT
              !.pc = "matched",
              !.chunks = MatchChunks(retrieval.store,
                                     retrieval.match_count * 2)]
       ELSE retrieval' = [retrieval EXCEPT !.pc = "thrown"]
  /\ UNCHANGED exceptRetrieval

\* the filtered list returned whole
RetrieveFilter_NoSlice ==
  /\ retrieval.pc = "matched"
  /\ LET results ==
           [i \in 1 .. Len(retrieval.chunks) |->
              [pageContent |-> retrieval.chunks[i].content,
               metadata |-> Merge(retrieval.chunks[i].metadata,
                  [document_id |-> retrieval.chunks[i].document_id])]]
         filteredResults == FilterNotToc(results)
     IN  retrieval' = [retrieval EXCEPT
           !.pc = "returned",
           !.results = results,
           !.filteredResults = filteredResults,
           !.returned = filteredResults]
  /\ UNCHANGED exceptRetrieval

\* supabase-functions.ts 351-373
RetrieveFilter ==
  /\ retrieval.pc = "matched"
  /\ LET results ==
           [i \in 1 .. Len(retrieval.chunks) |->
              [pageContent |-> retrieval.chunks[i].content,
               metadata |-> Merge(retrieval.chunks[i].metadata,
                  [document_id |-> retrieval.chunks[i].document_id])]]
         filteredResults == FilterNotToc(results)
     IN  retrieval' = [retrieval EXCEPT
           !.pc = "returned",
           !.results = results,
           !.filteredResults = filteredResults,
           !.returned = Slice(filteredResults, retrieval.match_count)]
  /\ UNCHANGED exceptRetrieval

\* one call, with any ranking of the store and any match_count setting
InitRetrieval ==
  /\ documents = [d \in {} |-> EmptyObj]
  /\ chunks = {}
  /\ uploads = [d \in Docs |-> IdleUpload]
  /\ runs = [r \in Runs |-> IdleRun]
  /\ embed = IdleEmbed
  /\ NoChat
  /\ NoSide
  /\ \E store \in Rankings, match_count \in 1 .. MaxMatchCount :
       retrieval = [IdleRetrieval EXCEPT
          !.pc = "start", !.store = store, !.match_count = match_count]

NextRetrieval ==
  \/ RetrieveQuery
  \/ RetrieveFilter

SpecRetrieval == InitRetrieval /\ [][NextRetrieval]_vars

\* ------------------------------------------------------- citation markers
\* An answer text is a sequence of pieces of text: the two halves of the
\* marker token CITATION_BADGE, an underscore, a bracket, a decimal digit, or
\* "x" for any other text.
DigitChars == {ToString(n) : n \in 0 .. 9}

\* the value of a decimal digit
DigitValue(ch) == CHOOSE n \in 0 .. 9 : ToString(n) = ch

RECURSIVE ParseInt(_)
\* parseInt on a run of decimal digits
ParseInt(run) ==
  IF run = <<>> THEN 0
  ELSE 10 * ParseInt(SubSeq(run, 1, Len(run) - 1)) + DigitValue(run[Len(run)])

RECURSIVE NumberToString(_)
\* the decimal digits of a number, as a template literal prints it
NumberToString(n) ==
  IF n < 10 THEN <<ToString(n)>>
  ELSE NumberToString(n \div 10) \o <<ToString(n % 10)>>

\* `[${n}]`
Bracketed(n) == <<"[">> \o NumberToString(n) \o <<"]">>

RECURSIVE RunEnd(_, _, _)
\* the last position of the longest run of characters of the class that
\* starts at position i (i - 1 if there is none): a greedy + or *
RunEnd(text, i, class) ==
  IF i <= Len(text) /\ text[i] \in class
  THEN RunEnd(text, i + 1, class)
  ELSE i - 1

\* the text reads CITATION_BADGE from position i
BadgeAt(text, i) ==
  /\ i + 1 <= Len(text)
  /\ text[i] = "CITATION_"
  /\ text[i + 1] = "BADGE"

\* String.prototype.includes("CITATION_BADGE")
IncludesBadge(text) == \E i \in 1 .. Len(text) : BadgeAt(text, i)

\* /CITATION_BADGE_(\d+)/ matches at position i
BadgeNumberAt(text, i) ==
  /\ BadgeAt(text, i)
  /\ i + 3 <= Len(text)
  /\ text[i + 2] = "_"
  /\ text[i + 3] \in DigitChars

\* actions.ts 656-662: the replacement of one match, the same in and out of
\* the bounds of the citation list
BadgeNumber(text, i) ==
  Bracketed(ParseInt(SubSeq(text, i + 3, RunEnd(text, i + 3, DigitChars))) + 1)

RECURSIVE ReplaceBadgeNumbers(_, _)
\* actions.ts 656-662: response.replace(/CITATION_BADGE_(\d+)/g, ...), the
\* matches taken from left to right from position i on
ReplaceBadgeNumbers(text, i) ==
  IF i > Len(text) THEN <<>>
  ELSE IF BadgeNumberAt(text, i)
       THEN BadgeNumber(text, i)
              \o ReplaceBadgeNumbers(text, RunEnd(text, i + 3, DigitChars) + 1)
       ELSE <<text[i]>> \o ReplaceBadgeNumbers(text, i + 1)

\* /CITATION_BADGE_\d+[_]+\d+/ matches at position i
BadgeSuffixAt(text, i) ==
  /\ BadgeNumberAt(text, i)
  /\ LET d == RunEnd(text, i + 3, DigitChars)
         u == RunEnd(text, d + 1, {"_"})
     IN  u > d /\ u + 1 <= Len(text) /\ text[u + 1] \in DigitChars

RECURSIVE ReplaceBadgeSuffixes(_, _)
\* actions.ts 665-679: each number of a match becomes [number + 1]
ReplaceBadgeSuffixes(text, i) ==
  IF i > Len(text) THEN <<>>
  ELSE IF BadgeSuffixAt(text, i)
       THEN LET d == RunEnd(text, i + 3, DigitChars)
                u == RunEnd(text, d + 1, {"_"})
                e == RunEnd(text, u + 1, DigitChars)
            IN  Bracketed(ParseInt(SubSeq(text, i + 3, d)) + 1)
                  \o Bracketed(ParseInt(SubSeq(text, u + 1, e)) + 1)
                  \o ReplaceBadgeSuffixes(text, e + 1)
       ELSE <<text[i]>> \o ReplaceBadgeSuffixes(text, i + 1)

RECURSIVE ReplaceBadges(_, _, _)
\* text.replace(/CITATION_BADGE/g, by), one pass from left to right
ReplaceBadges(text, i, by) ==
  IF i > Len(text) THEN <<>>
  ELSE IF BadgeAt(text, i)
       THEN by \o ReplaceBadges(text, i + 2, by)
       ELSE <<text[i]>> \o ReplaceBadges(text, i + 1, by)

\* actions.ts 654-682: the three replacements in their order
PostProcess(response) ==
  ReplaceBadges(
    ReplaceBadgeSuffixes(ReplaceBadgeNumbers(response, 1), 1), 1, <<>>)

\* ---------------------------------------------------- generateChatResponse
\* the conversation the calls belong to
ConversationId == "conv1"

\* the chunks that retrieval finds for the query and that isTableOfContents
\* lets through, in their order; a call gets the first n of them
RelevantDocs ==
  <<[pageContent |-> <<"the", "cat", "sat.">>,
     metadata |-> [document_id |-> "doc1", chunkIndex |-> 1]],
    [pageContent |-> <<"in", "2020", "sales", "rose">>,
     metadata |-> [document_id |-> "doc1", chunkIndex |-> 2]],
    [pageContent |-> <<"the", "cat", "sat.">>,
     metadata |-> [document_id |-> "doc1", chunkIndex |-> 3]]>>

\* the internal marker for excerpt k, as the completion service writes it
MarkerPiece(k) == <<"CITATION_", "BADGE", "_">> \o NumberToString(k)

\* the pieces a completion is put together from: markers for excerpts 0 and
\* 2, a marker with a numeric suffix, other text, the marker token and its
\* two halves
Pieces ==
  {MarkerPiece(0), MarkerPiece(2), MarkerPiece(0) \o <<"_", "1">>, <<"x">>,
   <<"CITATION_", "BADGE">>, <<"CITATION_">>, <<"BADGE">>}

\* the texts the completion service can return, as sequences of pieces
CompletionPieces == UNION {[1 .. n -> Pieces] : n \in 0 .. MaxPieces}

RECURSIVE Flatten(_)
\* the text made of the pieces in their order
Flatten(pieces) ==
  IF pieces = <<>> THEN <<>> ELSE Head(pieces) \o Flatten(Tail(pieces))

\* the titles generateConversationTitle can return
Titles == {"Sales", " Sales ", "\"Sales\""}

\* String.prototype.trim on a title
Trim(title) == IF title = " Sales " THEN "Sales" ELSE title

\* title.replace(/["']/g, "")
StripQuotes(title) == IF title = "\"Sales\"" THEN "Sales" ELSE title

\* the count of the conversation's rows with role user
UserMessageCount ==
  Cardinality({i \in 1 .. Len(messages) : messages[i].role = "user"})

\* a citation whose map callback has not finished
PendingCitation ==
  [id |-> "pending", text |-> <<>>, document |-> "", documentId |-> ""]

\* actions.ts 622-624
CitationId(conversationId, timestamp, index) ==
  "citation-" \o conversationId \o "-" \o ToString(timestamp)
     \o "-" \o ToString(index)

\* actions.ts 537-563: the title of a conversation without user messages
ChatTitle(c) ==
  /\ chat[c].pc = "start"
  /\ IF UserMessageCount = 0
     THEN \E title \in Titles \cup {"throw"} :
            IF title = "throw"
            THEN /\ chat' = [chat EXCEPT ![c].pc = "catch"]
                 /\ UNCHANGED conversation
            ELSE /\ chat' = [chat EXCEPT ![c].pc = "retrieve"]
                 /\ conversation' = [conversation EXCEPT !.title = Trim(title)]
     ELSE /\ chat' = [chat EXCEPT ![c].pc = "retrieve"]
          /\ UNCHANGED conversation
  /\ UNCHANGED <<messages, now, view>>
  /\ UNCHANGED exceptChat

\* actions.ts 565-586: retrieval and the second filter
ChatRetrieve(c) ==
  /\ chat[c].pc = "retrieve"
  /\ \E n \in 0 .. Len(RelevantDocs), throws \in BOOLEAN :
       IF throws
       THEN chat' = [chat EXCEPT ![c].pc = "catch"]
       ELSE chat' = [chat EXCEPT
              ![c].pc = IF n = 0 THEN "invoke" ELSE "citations",
              ![c].nonTocDocs = SubSeq(RelevantDocs, 1, n),
              ![c].citations = [i \in 1 .. n |-> PendingCitation]]
  /\ UNCHANGED <<messages, conversation, now, view>>
  /\ UNCHANGED exceptChat

\* actions.ts 588-637: the callback of one document, after its fetch of the
\* document row; index is the callback's index + 1. Promise.all is settled by
\* the last callback.
ChatCitation(c, index) ==
  /\ chat[c].pc = "citations"
  /\ index \in 1 .. Len(chat[c].nonTocDocs)
  /\ chat[c].citations[index] = PendingCitation
  /\ LET doc == chat[c].nonTocDocs[index]
         found == doc.metadata.document_id \in DOMAIN documents
         citation ==
           [id |-> CitationId(ConversationId, now, index),
            text |-> doc.pageContent,
            document |-> IF found THEN doc.metadata.document_id
                         ELSE "Unknown Document",
            documentId |-> IF found THEN doc.metadata.document_id ELSE ""]
         built == [chat[c].citations EXCEPT ![index] = citation]
     IN  chat' = [chat EXCEPT
           ![c].citations = built,
           ![c].pc = IF \A i \in 1 .. Len(built) : built[i] # PendingCitation
                     THEN "invoke" ELSE "citations"]
  /\ UNCHANGED <<messages, conversation, now, view>>
  /\ UNCHANGED exceptChat

\* actions.ts 639-690: the completion, its post-processing and the insert
\* of the assistant message
ChatRespond(c) ==
  /\ chat[c].pc = "invoke"
  /\ \E throws \in BOOLEAN :
       IF throws
       THEN /\ chat' = [chat EXCEPT ![c].pc = "catch"]
            /\ UNCHANGED messages
       ELSE LET response == PostProcess(Flatten(chat[c].pieces))
            IN  /\ chat' = [chat EXCEPT
                     ![c].pc = "stored", ![c].response = response]
                /\ messages' = Append(messages,
                     [conversation_id |-> ConversationId,
                      role |-> "assistant",
                      content |-> response,
                      citations |->
                        IF Len(chat[c].citations) > 0
                        THEN [isNull |-> FALSE, list |-> chat[c].citations]
                        ELSE NullCitations])
  /\ UNCHANGED <<conversation, now, view>>
  /\ UNCHANGED exceptChat

\* actions.ts 692-742: updated_at, the title after the first user message,
\* and the return of the text with all the citations built
ChatFinish(c) ==
  /\ chat[c].pc = "stored"
  /\ LET returned ==
           [content |-> chat[c].response, citations |-> chat[c].citations]
     IN  IF UserMessageCount = 1
         THEN \E title \in Titles \cup {"throw"} :
                IF title = "throw"
                THEN /\ chat' = [chat EXCEPT ![c].pc = "catch"]
                     /\ conversation' = [conversation EXCEPT !.updated_at = now]
                ELSE /\ chat' = [chat EXCEPT
                          ![c].pc = "returned", ![c].returned = returned]
                     /\ conversation' =
                          [title |-> StripQuotes(Trim(title)),
                           updated_at |-> now]
         ELSE /\ chat' = [chat EXCEPT
                   ![c].pc = "returned", ![c].returned = returned]
              /\ conversation' = [conversation EXCEPT !.updated_at = now]
  /\ UNCHANGED <<messages, now, view>>
  /\ UNCHANGED exceptChat

\* actions.ts 743-746
ChatCatch(c) ==
  /\ chat[c].pc = "catch"
  /\ chat' = [chat EXCEPT ![c].pc = "failed"]
  /\ UNCHANGED <<messages, conversation, now, view>>
  /\ UNCHANGED exceptChat

\* a millisecond passes
Tick ==
  /\ now < MaxClock
  /\ now' = now + 1
  /\ UNCHANGED <<chat, messages, conversation, view>>
  /\ UNCHANGED exceptChat

\* ------------------------------------------------------------ ChatMessage
RECURSIVE BadgeNumberMatches(_, _)
\* chat-message.tsx 57-62: the numbers of the matches of
\* /CITATION_BADGE_(\d+)/g, from left to right from position i on
BadgeNumberMatches(text, i) ==
  IF i > Len(text) THEN <<>>
  ELSE IF BadgeNumberAt(text, i)
       THEN <<ParseInt(SubSeq(text, i + 3, RunEnd(text, i + 3, DigitChars)))>>
              \o BadgeNumberMatches(text, RunEnd(text, i + 3, DigitChars) + 1)
       ELSE BadgeNumberMatches(text, i + 1)

\* Set.prototype.add on a set kept in insertion order
SetAdd(set, x) ==
  IF \E i \in 1 .. Len(set) : set[i] = x THEN set ELSE Append(set, x)

\* the index taken without a look at the list
IndexInBounds_Unchecked(citations, index) == TRUE

\* chat-message.tsx 63
IndexInBounds(citations, index) ==
  ~citations.isNull /\ index >= 0 /\ index < Len(citations.list)

RECURSIVE TrackReferenced(_, _, _)
\* chat-message.tsx 61-66
TrackReferenced(matches, citations, set) ==
  IF matches = <<>> THEN set
  ELSE TrackReferenced(Tail(matches), citations,
         IF IndexInBounds(citations, Head(matches))
         THEN SetAdd(set, Head(matches)) ELSE set)

\* chat-message.tsx 51-75
ReferencedCitationIndices(content, citations) ==
  LET tracked ==
        TrackReferenced(BadgeNumberMatches(content, 1), citations, <<>>)
  IN  IF IncludesBadge(content) /\ ~citations.isNull
           /\ Len(citations.list) > 0
      THEN SetAdd(tracked, 0)
      ELSE tracked

\* chat-message.tsx 77-87
ProcessedContent(content) ==
  ReplaceBadges(ReplaceBadgeNumbers(content, 1), 1, Bracketed(1))

\* String.prototype.includes("CITATION_BADGE_")
IncludesBadgeUnderscore(text) ==
  \E i \in 1 .. Len(text) :
    BadgeAt(text, i) /\ i + 2 <= Len(text) /\ text[i + 2] = "_"

\* String.prototype.includes("__CITATION_BADGE_")
IncludesWrappedBadge(text) ==
  \E i \in 1 .. Len(text) :
    /\ i + 4 <= Len(text)
    /\ text[i] = "_" /\ text[i + 1] = "_"
    /\ BadgeAt(text, i + 2) /\ text[i + 4] = "_"

\* a piece of a rendered paragraph: text, or the badge of a citation
TextPart(text) == [text |-> text, badge |-> -1]

RECURSIVE WrapBadgeNumbers(_, _)
\* chat-message.tsx 163-174: CITATION_BADGE_k to __CITATION_BADGE_k__
WrapBadgeNumbers(text, i) ==
  IF i > Len(text) THEN <<>>
  ELSE IF BadgeNumberAt(text, i)
       THEN LET d == RunEnd(text, i + 3, DigitChars)
            IN  <<"_", "_">> \o SubSeq(text, i, d) \o <<"_", "_">>
                  \o WrapBadgeNumbers(text, d + 1)
       ELSE <<text[i]>> \o WrapBadgeNumbers(text, i + 1)

\* /__CITATION_BADGE_(\d+)__/ matches at position i
WrappedBadgeAt(text, i) ==
  /\ i + 1 <= Len(text)
  /\ text[i] = "_" /\ text[i + 1] = "_"
  /\ BadgeNumberAt(text, i + 2)
  /\ LET d == RunEnd(text, i + 5, DigitChars)
     IN  d + 2 <= Len(text) /\ text[d + 1] = "_" /\ text[d + 2] = "_"

RECURSIVE SplitParts(_, _, _)
\* chat-message.tsx 176-216: the parts of the split; a number within the
\* list is a badge, one outside it the text [number + 1]
SplitParts(text, i, citations) ==
  IF i > Len(text) THEN <<>>
  ELSE IF WrappedBadgeAt(text, i)
       THEN LET d == RunEnd(text, i + 5, DigitChars)
                citationIndex == ParseInt(SubSeq(text, i + 5, d))
            IN  <<IF citationIndex < 0
                     \/ citationIndex >=
                          (IF citations.isNull THEN 0 ELSE Len(citations.list))
                  THEN TextPart(Bracketed(citationIndex + 1))
                  ELSE [text |-> <<>>, badge |-> citationIndex]>>
                  \o SplitParts(text, d + 3, citations)
       ELSE <<TextPart(<<text[i]>>)>> \o SplitParts(text, i + 1, citations)

\* chat-message.tsx 130-217: the paragraph renderer on a paragraph of text
RenderParagraph(children, citations) ==
  IF IncludesBadgeUnderscore(children)
  THEN <<TextPart(ReplaceBadgeNumbers(children, 1))>>
  ELSE IF ~IncludesWrappedBadge(children)
  THEN <<TextPart(children)>>
  ELSE SplitParts(WrapBadgeNumbers(children, 1), 1, citations)

\* chat-message.tsx 351-382: the Sources list; each entry reads the citation
\* list at its index (an index outside the list reads undefined)
RenderSources(referenced, citations) ==
  IF ~citations.isNull /\ Len(citations.list) > 0 /\ Len(referenced) > 0
  THEN [i \in 1 .. Len(referenced) |->
          [index |-> referenced[i],
           citation |->
             IF referenced[i] >= 0 /\ referenced[i] < Len(citations.list)
             THEN citations.list[referenced[i] + 1]
             ELSE [id |-> "undefined"]]]
  ELSE <<>>

\* chat-message.tsx 508-523: the client appends the returned answer to the
\* messages it shows
ClientAppend(c) ==
  /\ chat[c].pc = "returned"
  /\ chat' = [chat EXCEPT ![c].pc = "shown"]
  /\ view' = [IdleView EXCEPT
       !.pc = "pending",
       !.message =
          [content |-> chat[c].returned.content,
           citations |->
             [isNull |-> FALSE, list |-> chat[c].returned.citations]]]
  /\ UNCHANGED <<messages, conversation, now>>
  /\ UNCHANGED exceptChat

\* chat-message.tsx 38-389: one render of an assistant message
RenderChatMessage ==
  /\ view.pc = "pending"
  /\ LET content == view.message.content
         citations == view.message.citations
         referenced == ReferencedCitationIndices(content, citations)
         processedContent == ProcessedContent(content)
         paragraph == RenderParagraph(processedContent, citations)
         sources == RenderSources(referenced, citations)
     IN  view' = [view EXCEPT
           !.pc = "rendered",
           !.referenced = referenced,
           !.processedContent = processedContent,
           !.paragraph = paragraph,
           !.sources = sources,
           !.reads =
              {paragraph[i].badge : i \in
                 {j \in 1 .. Len(paragraph) : paragraph[j].badge # -1}}
              \cup {sources[i].index : i \in 1 .. Len(sources)}]
  /\ UNCHANGED <<chat, messages, conversation, now>>
  /\ UNCHANGED exceptChat

\* one call, with any completion the service can return
InitChat ==
  /\ documents = [d \in {} |-> EmptyObj]
  /\ chunks = {}
  /\ uploads = [d \in Docs |-> IdleUpload]
  /\ runs = [r \in Runs |-> IdleRun]
  /\ embed = IdleEmbed
  /\ retrieval = IdleRetrieval
  /\ messages = <<>>
  /\ conversation = [title |-> "New Conversation", updated_at |-> 0]
  /\ now = 0
  /\ view = IdleView
  /\ NoSide
  /\ \E pieces \in CompletionPieces :
       chat = [c \in Calls |->
                 IF c = "call1"
                 THEN [IdleChat EXCEPT
                         !.pc = "start", !.query = "q", !.pieces = pieces]
                 ELSE IdleChat]

NextChat ==
  \/ \E c \in Calls : ChatTitle(c)
  \/ \E c \in Calls : ChatRetrieve(c)
  \/ \E c \in Calls, index \in 1 .. Len(RelevantDocs) : ChatCitation(c, index)
  \/ \E c \in Calls : ChatRespond(c)
  \/ \E c \in Calls : ChatFinish(c)
  \/ \E c \in Calls : ChatCatch(c)
  \/ Tick
  \/ \E c \in Calls : ClientAppend(c)
  \/ RenderChatMessage

SpecChat == InitChat /\ [][NextChat]_vars

\* two calls on the same conversation at the same time, as when an answer is
\* regenerated while the first request is under way
InitChatTwice ==
  /\ documents = [d \in {} |-> EmptyObj]
  /\ chunks = {}
  /\ uploads = [d \in Docs |-> IdleUpload]
  /\ runs = [r \in Runs |-> IdleRun]
  /\ embed = IdleEmbed
  /\ retrieval = IdleRetrieval
  /\ messages = <<>>
  /\ conversation = [title |-> "New Conversation", updated_at |-> 0]
  /\ now = 0
  /\ view = IdleView
  /\ NoSide
  /\ chat = [c \in Calls |->
               [IdleChat EXCEPT
                  !.pc = "start", !.query = "q",
                  !.pieces = <<MarkerPiece(0)>>]]

SpecChatTwice == InitChatTwice /\ [][NextChat]_vars

\* the component given any message: any text, and citations that are
\* absent, empty or present
InitRender ==
  /\ documents = [d \in {} |-> EmptyObj]
  /\ chunks = {}
  /\ uploads = [d \in Docs |-> IdleUpload]
  /\ runs = [r \in Runs |-> IdleRun]
  /\ embed = IdleEmbed
  /\ retrieval = IdleRetrieval
  /\ chat = [c \in Calls |-> IdleChat]
  /\ messages = <<>>
  /\ conversation = [title |-> "New Conversation", updated_at |-> 0]
  /\ now = 0
  /\ NoSide
  /\ \E pieces \in CompletionPieces, n \in 0 .. Len(RelevantDocs),
        isNull \in BOOLEAN :
       view = [IdleView EXCEPT
          !.pc = "pending",
          !.message =
             [content |-> Flatten(pieces),
              citations |->
                IF isNull THEN NullCitations
                ELSE [isNull |-> FALSE,
                      list |-> [i \in 1 .. n |->
                         [id |-> CitationId(ConversationId, 0, i),
                          text |-> RelevantDocs[i].pageContent,
                          document |-> "Unknown Document",
                          documentId |-> ""]]]]]

NextRender == RenderChatMessage

SpecRender == InitRender /\ [][NextRender]_vars

\* ------------------------------------------------- the other sub-models
\* no ingestion, no embedding call, no retrieval, no chat
NoMain ==
  /\ documents = [d \in {} |-> EmptyObj]
  /\ chunks = {}
  /\ uploads = [d \in Docs |-> IdleUpload]
  /\ runs = [r \in Runs |-> IdleRun]
  /\ embed = IdleEmbed
  /\ retrieval = IdleRetrieval
  /\ NoChat

\* the four main sub-models
mainVars == <<ingestVars, embed, retrieval, chatVars>>

\* what the steps from extraction to citation leave alone
exceptChunking == <<mainVars, deletion, settings, storage, toc, sidebar>>

\* ---------------------------------------------- text normalisation, chunks
\* the longest extracted text
MaxText == 5

\* A text is a sequence of characters. "a" stands for the lowercase
\* letters, "B" for the uppercase ones, "." for the punctuation marks
\* [.?!,;:] and " " for white space. The texts have no digit and no line
\* break, so the three table-of-contents patterns of
\* preprocessDocumentText (each needs one of the two) match nothing.
TextChars == {"a", "B", "-", ".", "[", "]", " "}

\* text.replace(pattern, replacement) with a global pattern, from index i
\* on: the matches are found left to right and do not overlap
RECURSIVE Replace(_, _, _)
Replace(rule, text, i) ==
  LET Lower(k) == k <= Len(text) /\ text[k] = "a"
      Upper(k) == k <= Len(text) /\ text[k] = "B"
      Letter(k) == Lower(k) \/ Upper(k)
      Is(k, ch) == k <= Len(text) /\ text[k] = ch
      RECURSIVE SpaceRun(_)
      SpaceRun(k) == IF Is(k, " ") THEN SpaceRun(k + 1) ELSE k
      \* the length of the match at i, 0 if there is none
      matched ==
        CASE rule = "camel" -> IF Lower(i) /\ Upper(i + 1) THEN 2 ELSE 0
          [] rule = "capital" ->
               IF Letter(i) /\ Upper(i + 1) /\ Lower(i + 2) THEN 3 ELSE 0
          [] rule = "punctuation" ->
               IF Is(i, ".") /\ Letter(i + 1) THEN 2 ELSE 0
          [] rule = "open" -> IF Letter(i) /\ Is(i + 1, "[") THEN 2 ELSE 0
          [] rule = "close" -> IF Is(i, "]") /\ Letter(i + 1) THEN 2 ELSE 0
          [] rule = "hyphen" ->
               IF Letter(i) /\ Is(i + 1, "-") /\ Letter(i + 2) THEN 3 ELSE 0
          [] rule = "spaces" ->
               IF SpaceRun(i) - i >= 2 THEN SpaceRun(i) - i ELSE 0
      replacement ==
        CASE rule = "capital" -> <<text[i], " ", text[i + 1], text[i + 2]>>
          [] rule = "hyphen" -> <<text[i], " ", "-", " ", text[i + 2]>>
          [] rule = "spaces" -> <<" ">>
          [] OTHER -> <<text[i], " ", text[i + 1]>>
  IN IF i > Len(text) THEN <<>>
     ELSE IF matched > 0
       THEN replacement \o Replace(rule, text, i + matched)
       ELSE <<text[i]>> \o Replace(rule, text, i + 1)

\* normalizeDocumentText: seven replace calls, each on the result of the
\* one before
NormalizeDocumentText(text) ==
  LET rules == <<"camel", "capital", "punctuation", "open", "close",
                 "hyphen", "spaces">>
      RECURSIVE Apply(_, _)
      Apply(k, t) ==
        IF k > Len(rules) THEN t ELSE Apply(k + 1, Replace(rules[k], t, 1))
  IN Apply(1, text)

\* preprocessDocumentText: the three table-of-contents patterns leave
\* these texts alone; the same seven replace calls follow, and /\n{3,}/
\* finds no line break
PreprocessDocumentText(text) ==
  LET rules == <<"camel", "capital", "punctuation", "open", "close",
                 "hyphen", "spaces">>
      RECURSIVE Apply(_, _)
      Apply(k, t) ==
        IF k > Len(rules) THEN t ELSE Apply(k + 1, Replace(rules[k], t, 1))
  IN Apply(1, text)

\* createTextChunks: the splitter's documents, each given its line
\* metadata. A text this short is one document, its page content the
\* trimmed text, and a blank text gives none. The page content is found
\* in the text it was cut from, so the metadata is always added.
CreateTextChunks(text) ==
  LET RECURSIVE TrimStart(_)
      TrimStart(t) == IF t # <<>> /\ Head(t) = " " THEN TrimStart(Tail(t))
                      ELSE t
      RECURSIVE TrimEnd(_)
      TrimEnd(t) == IF t # <<>> /\ t[Len(t)] = " "
                      THEN TrimEnd(SubSeq(t, 1, Len(t) - 1))
                    ELSE t
      pageContent == TrimEnd(TrimStart(text))
  IN IF pageContent = <<>> THEN <<>>
     ELSE <<[pageContent |-> pageContent,
             metadata |-> [startLine |-> 1, endLine |-> 1,
                           originalText |-> pageContent]]>>

\* The route handler normalises the extracted text and stores it as the
\* document's content.
NormalizeExtracted ==
  /\ chunking.pc = "extracted"
  /\ chunking' = [chunking EXCEPT
       !.pc = "normalized",
       !.content = NormalizeDocumentText(chunking.extractedText)]
  /\ UNCHANGED exceptChunking

\* processDocumentIntoChunks(normalizedText): preprocess, then chunk
ProcessDocumentIntoChunks ==
  /\ chunking.pc = "normalized"
  /\ chunking' = [chunking EXCEPT
       !.pc = "chunked",
       !.docs = CreateTextChunks(PreprocessDocumentText(chunking.content))]
  /\ UNCHANGED exceptChunking

\* the insert of each chunk: its page content and its metadata
InsertChunks ==
  /\ chunking.pc = "chunked"
  /\ chunking' = [chunking EXCEPT
       !.pc = "stored",
       !.rows = [i \in 1 .. Len(chunking.docs) |->
                   [content |-> chunking.docs[i].pageContent,
                    metadata |-> chunking.docs[i].metadata]]]
  /\ UNCHANGED exceptChunking

\* generateChatResponse builds the citation of a retrieved chunk:
\* text: originalText || doc.pageContent
CiteChunk ==
  /\ chunking.pc = "stored"
  /\ chunking.rows # <<>>
  /\ LET doc == chunking.rows[1]
         originalText == doc.metadata.originalText
     IN chunking' = [chunking EXCEPT
          !.pc = "cited",
          !.citation =
             [text |-> IF originalText # <<>> THEN originalText
                       ELSE doc.content,
              originalText |-> originalText]]
  /\ UNCHANGED exceptChunking

\* any extracted text
InitChunking ==
  /\ sidebar = IdleSidebar
  /\ toc = IdleToc
  /\ storage = IdleStorage
  /\ settings = IdleSettings
  /\ NoMain
  /\ deletion = IdleDeletion
  /\ \E text \in UNION {[1 .. n -> TextChars] : n \in 0 .. MaxText} :
       chunking = [IdleChunking EXCEPT !.pc = "extracted",
                                       !.extractedText = text]

NextChunking ==
  \/ NormalizeExtracted
  \/ ProcessDocumentIntoChunks
  \/ InsertChunks
  \/ CiteChunk

SpecChunking == InitChunking /\ [][NextChunking]_vars

\* ------------------------------------------------------- deleteDocument
\* what a deleteDocument call and the run beside it leave alone
exceptDeletion ==
  <<uploads, runs, embed, retrieval, chatVars, chunking, settings, storage,
    toc, sidebar>>

\* a row of the "documents" table as an ingestion run leaves it
StoredDocument == [content |-> "text", metadata |-> EmptyObj]

\* deleteDocument 376-401: the user and the admin check; each failure
\* throws before anything is deleted
DeleteAuthorize ==
  /\ deletion.pc = "start"
  /\ \E outcome \in {"no_user", "profile_error", "not_admin", "admin"} :
       deletion' = [deletion EXCEPT
          !.pc = IF outcome = "admin" THEN "authorized" ELSE "failed"]
  /\ UNCHANGED <<documents, chunks>>
  /\ UNCHANGED exceptDeletion

\* deleteDocument 403-412: delete the chunks whose document_id is id
DeleteChunks ==
  /\ deletion.pc = "authorized"
  /\ \E chunksError \in BOOLEAN :
       IF chunksError
       THEN /\ deletion' = [deletion EXCEPT !.pc = "failed"]
            /\ UNCHANGED chunks
       ELSE /\ deletion' = [deletion EXCEPT !.pc = "chunksDeleted"]
            /\ chunks' = {c \in chunks : c.document_id # deletion.id}
  /\ UNCHANGED documents
  /\ UNCHANGED exceptDeletion

\* deleteDocument 414-425 without the schema's ON DELETE CASCADE
DeleteDocumentRow_NoCascade ==
  /\ deletion.pc = "chunksDeleted"
  /\ \E docError \in BOOLEAN :
       IF docError
       THEN /\ deletion' = [deletion EXCEPT !.pc = "failed"]
            /\ UNCHANGED <<documents, chunks>>
       ELSE /\ deletion' = [deletion EXCEPT !.pc = "done"]
            /\ documents' =
                 [d \in DOMAIN documents \ {deletion.id} |-> documents[d]]
            /\ UNCHANGED chunks
  /\ UNCHANGED exceptDeletion

\* deleteDocument 414-425: delete the document's row. The chunks table
\* declares document_id REFERENCES documents(id) ON DELETE CASCADE, so
\* the rows that still reference the document go with it.
DeleteDocumentRow ==
  /\ deletion.pc = "chunksDeleted"
  /\ \E docError \in BOOLEAN :
       IF docError
       THEN /\ deletion' = [deletion EXCEPT !.pc = "failed"]
            /\ UNCHANGED <<documents, chunks>>
       ELSE /\ deletion' = [deletion EXCEPT
               !.pc = "done",
               !.cascaded =
                  Cardinality({c \in chunks : c.document_id = deletion.id})]
            /\ documents' =
                 [d \in DOMAIN documents \ {deletion.id} |-> documents[d]]
            /\ chunks' = {c \in chunks : c.document_id # deletion.id}
  /\ UNCHANGED exceptDeletion

\* route handler 112-129: the insert of the run's next chunk. The insert
\* is refused when no document has the row's document_id (the foreign
\* key); it can also fail for another reason. A failure is logged and the
\* run goes on with its next chunk.
InsertChunk ==
  /\ deletion.pc # "idle"
  /\ deletion.next <= MaxChunks
  /\ LET row == [document_id |-> deletion.id, run |-> "post",
                 idx |-> deletion.next]
     IN IF deletion.id \notin DOMAIN documents
        THEN /\ deletion' = [deletion EXCEPT
                  !.next = @ + 1, !.refused = @ + 1]
             /\ UNCHANGED chunks
        ELSE \E error \in BOOLEAN :
               /\ deletion' = [deletion EXCEPT !.next = @ + 1]
               /\ chunks' = IF error THEN chunks ELSE chunks \cup {row}
  /\ UNCHANGED documents
  /\ UNCHANGED exceptDeletion

\* two documents, each with chunks of an earlier run; one of them is
\* deleted while a run inserts chunks for it
InitDeletion ==
  /\ sidebar = IdleSidebar
  /\ toc = IdleToc
  /\ storage = IdleStorage
  /\ settings = IdleSettings
  /\ documents = [d \in {"doc1", "doc2"} |-> StoredDocument]
  /\ \E n \in 0 .. MaxStored :
       chunks = {[document_id |-> d, run |-> "trigger", idx |-> i] :
                   d \in {"doc1", "doc2"}, i \in 1 .. n}
  /\ uploads = [d \in Docs |-> IdleUpload]
  /\ runs = [r \in Runs |-> IdleRun]
  /\ embed = IdleEmbed
  /\ retrieval = IdleRetrieval
  /\ NoChat
  /\ chunking = IdleChunking
  /\ deletion = [IdleDeletion EXCEPT !.pc = "start", !.id = "doc1"]

NextDeletion ==
  \/ DeleteAuthorize
  \/ DeleteChunks
  \/ DeleteDocumentRow
  \/ InsertChunk

SpecDeletion == InitDeletion /\ [][NextDeletion]_vars

\* ---------------------------------------------------------- RAG settings
\* the updateRagSettings calls of one behaviour
MaxUpdates == 2

\* what the settings calls leave alone
exceptSettings == <<mainVars, chunking, deletion, storage, toc, sidebar>>

\* The values a call can carry, around the limits of the validation. A
\* match_threshold is written in hundredths: 70 stands for 0.7. The
\* settings form sends Number(value) of its number inputs, a finite
\* number.
SettingsInputs ==
  [match_threshold : {-1, 100}, match_count : {1, 21},
   chunk_size : {99, 100, 5000, 5001},
   chunk_overlap : {-1, 0, 99, 100, 4999, 5000}]

\* the validation without the check of the overlap
ValidSettings_NoOverlapCheck(s) ==
  /\ ~(s.match_threshold < 0 \/ s.match_threshold > 100)
  /\ ~(s.match_count < 1 \/ s.match_count > 20)
  /\ ~(s.chunk_size < 100 \/ s.chunk_size > 5000)

\* updateRagSettings 141-159: none of the four checks throws
ValidSettings(s) ==
  /\ ~(s.match_threshold < 0 \/ s.match_threshold > 100)
  /\ ~(s.match_count < 1 \/ s.match_count > 20)
  /\ ~(s.chunk_size < 100 \/ s.chunk_size > 5000)
  /\ ~(s.chunk_overlap < 0 \/ s.chunk_overlap >= s.chunk_size)

\* updateRagSettings: the user, the validation, the update of the row
UpdateRagSettings ==
  /\ settings.pc = "ready"
  /\ settings.calls < MaxUpdates
  /\ \E input \in SettingsInputs, user \in BOOLEAN, error \in BOOLEAN :
       LET result == IF ~user THEN "not_authenticated"
                     ELSE IF ~ValidSettings(input) THEN "rejected"
                     ELSE IF error THEN "failed"
                     ELSE "updated"
       IN settings' = [settings EXCEPT
            !.calls = @ + 1,
            !.input = <<input>>,
            !.before = <<settings.stored>>,
            !.result = result,
            !.stored = IF result = "updated" THEN input ELSE @]
  /\ UNCHANGED exceptSettings

\* createTextChunks 132-138: getRagSettings reads the row, or returns the
\* defaults when the read fails; the splitter is built from the result
SplitWithSettings ==
  /\ settings.pc = "ready"
  /\ \E error \in BOOLEAN :
       LET value == IF error
                    THEN [match_threshold |-> 70, match_count |-> 5,
                          chunk_size |-> 1000, chunk_overlap |-> 200]
                    ELSE settings.stored
       IN settings' = [settings EXCEPT
            !.splitter = <<[chunkSize |-> value.chunk_size,
                            chunkOverlap |-> value.chunk_overlap]>>]
  /\ UNCHANGED exceptSettings

InitSettings ==
  /\ sidebar = IdleSidebar
  /\ toc = IdleToc
  /\ storage = IdleStorage
  /\ NoMain
  /\ chunking = IdleChunking
  /\ deletion = IdleDeletion
  /\ settings = [IdleSettings EXCEPT !.pc = "ready"]

NextSettings ==
  \/ UpdateRagSettings
  \/ SplitWithSettings

SpecSettings == InitSettings /\ [][NextSettings]_vars

\* ------------------------------------------------------ storage module
\* what the storage module's calls leave alone
exceptStorage == <<mainVars, chunking, deletion, settings, toc, sidebar>>

\* the requests served by one server process
Requests == {"req1", "req2"}

\* initializeStorage, as awaited by request r before its upload: the
\* bucket is listed and, if missing, created; on success useMockStorage is
\* cleared, on a failure initMockStorage sets it, unless the mock directory
\* cannot be made, which leaves the variable as it was
InitializeStorage(r) ==
  /\ storage.requests[r].pc = "start"
  /\ \E outcome \in {"exists", "created", "list_error", "create_error",
                     "throws"},
        mkdirFails \in BOOLEAN :
       LET primary == outcome \in {"exists", "created"}
       IN storage' = [storage EXCEPT
            !.useMockStorage = IF primary THEN FALSE
                               ELSE IF mkdirFails THEN @
                               ELSE TRUE,
            !.requests[r].pc = "initialized",
            !.requests[r].initialized =
               IF primary THEN "primary"
               ELSE IF mkdirFails THEN "neither"
               ELSE "mock"]
  /\ UNCHANGED exceptStorage

\* uploadDocumentToStorage: the mock store if useMockStorage is set now;
\* else the bucket, and the mock store if the bucket's upload fails
UploadDocumentToStorage(r) ==
  /\ storage.requests[r].pc = "initialized"
  /\ \E error \in BOOLEAN, writeFails \in BOOLEAN :
       LET mock == storage.useMockStorage \/ error
       IN storage' = [storage EXCEPT
            !.requests[r].pc = IF mock /\ writeFails THEN "failed"
                               ELSE "uploaded",
            !.requests[r].store =
               IF storage.useMockStorage THEN "mock"
               ELSE IF error THEN "fallback"
               ELSE "primary",
            !.requests[r].fileUrl =
               IF mock /\ writeFails THEN "none"
               ELSE IF mock THEN "mock-storage"
               ELSE "https"]
  /\ UNCHANGED exceptStorage

\* two requests that upload, in a process whose module was just loaded
InitStorage ==
  /\ sidebar = IdleSidebar
  /\ toc = IdleToc
  /\ NoMain
  /\ chunking = IdleChunking
  /\ deletion = IdleDeletion
  /\ settings = IdleSettings
  /\ storage = [IdleStorage EXCEPT
       !.requests = [r \in Requests |-> [@[r] EXCEPT !.pc = "start"]]]

NextStorage ==
  \/ \E r \in Requests : InitializeStorage(r)
  \/ \E r \in Requests : UploadDocumentToStorage(r)

SpecStorage == InitStorage /\ [][NextStorage]_vars

\* ------------------------------------------------------ isTableOfContents
\* the entries of the longest table of contents
MaxEntries == 4

\* the words of the longest paragraph
MaxWords == 3

\* what the filters leave alone
exceptToc == <<mainVars, chunking, deletion, settings, storage, sidebar>>

\* actions.ts 750-849, on a text given as its lines, each line a sequence
\* of tokens with white space between them
IsTableOfContents(lines) ==
  LET text == Flatten(lines)
      \* tokens that end in [A-Z][a-z]+
      Capitalised(w) ==
        w \in {"Chapter", "One", "Two", "Three", "Table", "Contents", "The",
               "Switch", "Yes", "Ladder"}
      \* /\s+\d+\s*$/ on a line: a number after white space ends it
      EndsWithPageNumber(line) ==
        Len(line) >= 2 /\ line[Len(line)] \in Numbers
      \* /^\s*(\d+\.|\d+\.\d+|\w+\.)\s+.+\s+\d+\s*$/ on a line
      IsTocEntry(line) ==
        /\ Len(line) >= 3
        /\ line[1] \in PunctuatedTokens
        /\ line[Len(line)] \in Numbers
      \* matches of /([A-Z][a-z]+\s+)+\d+/g: each ends at a number that
      \* follows a capitalised word
      matches ==
        Cardinality({i \in 1 .. Len(text) - 1 :
                       Capitalised(text[i]) /\ HasDigit(text[i + 1])
                         /\ text[i + 1] \notin LetterDigitTokens})
      \* matches of /([A-Z][a-z]+){2,}\d+/g: no token here is two
      \* capitalised words and a number run together
      camelMatches == 0
      linesWithPageNumbers ==
        Cardinality({i \in 1 .. Len(lines) : EndsWithPageNumber(lines[i])})
      tocEntryCount ==
        Cardinality({i \in 1 .. Len(lines) : IsTocEntry(lines[i])})
      phrases ==
        {<<"conversation", "conversion", "strategies">>,
         <<"prospecting", "calls">>, <<"yes", "ladder">>,
         <<"memory", "anchor">>, <<"the", "switch">>,
         <<"clarifying", "questions">>, <<"whyisthatimportantnow">>,
         <<"howlonghasthisbeengoingonfor">>, <<"whendoyouneedthisfixedby">>,
         <<"solution", "strategies">>, <<"green", "brain", "sandwich">>}
  IN \/ ContainsPhrase(text, <<"table", "of", "contents">>)
     \/ Len(text) = 1 /\ ToLowerCase(text[1]) \in {"contents", "toc"}
     \/ /\ TotalChars(text) > 200
        /\ 10 * (TotalChars(text) - NonSpaceChars(text)) < TotalChars(text)
        /\ \E i \in 1 .. Len(text) : HasDigit(text[i])
        /\ \E i \in 1 .. Len(text) : HasLetter(text[i])
     \/ CompactToc(text)
     \/ matches >= 3
     \/ camelMatches >= 2
     \/ Len(lines) > 3 /\ 100 * linesWithPageNumbers > 25 * Len(lines)
     \/ Len(lines) > 3 /\ 100 * tocEntryCount > 20 * Len(lines)
     \/ /\ WordNumberPairs(text) >= 5
        /\ 100 * WordNumberPairs(text) > 15 * WordCount(text)
     \/ \E phrase \in phrases : ContainsPhrase(text, phrase)

\* retrieveRelevantDocuments drops the chunks isLikelyTableOfContents
\* takes for noise, generateChatResponse then drops those that
\* isTableOfContents takes for noise; what is left is the context
FilterChunk ==
  /\ toc.pc = "retrieved"
  /\ LET likely == IsLikelyTableOfContents(Flatten(toc.lines))
         isToc == IsTableOfContents(toc.lines)
     IN toc' = [toc EXCEPT
          !.pc = "filtered",
          !.likely = likely,
          !.isTableOfContents = isToc,
          !.kept = ~likely /\ ~isToc]
  /\ UNCHANGED exceptToc

\* a chunk that is a table of contents, three entries or more, each of
\* title words and a page number on a line of its own, or a chunk that is
\* one paragraph of prose
InitToc ==
  /\ sidebar = IdleSidebar
  /\ NoMain
  /\ chunking = IdleChunking
  /\ deletion = IdleDeletion
  /\ settings = IdleSettings
  /\ storage = IdleStorage
  /\ LET entries == {<<"Chapter", "One", "1">>, <<"Chapter", "Two", "15">>,
                     <<"Chapter", "Three", "42">>, <<"sales", "15">>}
         words == {"the", "cat", "sat.", "switch", "sales"}
         contents == UNION {[1 .. n -> entries] : n \in 3 .. MaxEntries}
         paragraphs ==
           {<<line>> : line \in UNION {[1 .. n -> words] : n \in 1 .. MaxWords}}
     IN \E lines \in contents \cup paragraphs :
          toc = [IdleToc EXCEPT !.pc = "retrieved", !.lines = lines]

NextToc == FilterChunk

SpecToc == InitToc /\ [][NextToc]_vars

\* -------------------------------------------------------- CitationSidebar
\* the document fetches one chat page starts
MaxFetches == 3

\* what the sidebar leaves alone
exceptSidebar == <<mainVars, chunking, deletion, settings, storage, toc>>

\* the citations of the messages on the page and the documentId of each;
\* generateChatResponse gives "" to a citation whose document it did not
\* find
DocumentIdOf ==
  [cite1 |-> "doc1", cite2 |-> "doc2", cite3 |-> ""]

\* handleCitationClick sets the active citation; the sidebar is mounted
\* if it was closed, and its effect on [citation] runs: a fetch of the
\* citation's document starts if it names one, and the citation's text is
\* shown meanwhile. A click on the active citation changes nothing.
HandleCitationClick(citation) ==
  /\ sidebar.pc = "open"
  /\ citation # sidebar.citation
  /\ Len(sidebar.fetches) < MaxFetches
  /\ LET fetching == DocumentIdOf[citation] # ""
     IN sidebar' = [sidebar EXCEPT
          !.citation = citation,
          !.formattedText = [of |-> citation, as |-> "text"],
          !.loading = IF fetching THEN TRUE ELSE @,
          !.error = IF fetching THEN FALSE ELSE @,
          !.fetches = IF fetching
                      THEN Append(@, [citation |-> citation, done |-> FALSE])
                      ELSE @]
  /\ UNCHANGED exceptSidebar

\* closeSidebar clears the active citation: the sidebar is unmounted, its
\* state is dropped, and the fetches it started no longer reach a
\* component
CloseSidebar ==
  /\ sidebar.pc = "open"
  /\ sidebar.citation # "none"
  /\ sidebar' = [IdleSidebar EXCEPT
       !.pc = "open",
       !.fetches = [i \in 1 .. Len(sidebar.fetches) |->
                      [sidebar.fetches[i] EXCEPT !.done = TRUE]]]
  /\ UNCHANGED exceptSidebar

\* fetchDocument after its await: getDocumentById has returned a document
\* with line-mapped content, one without, or has thrown. The citation it
\* reads is the one of the render that started the fetch.
FetchDocumentReturns(i) ==
  /\ sidebar.pc = "open"
  /\ i \in 1 .. Len(sidebar.fetches)
  /\ ~sidebar.fetches[i].done
  /\ LET citation == sidebar.fetches[i].citation
     IN \E outcome \in {"lines", "no_lines", "throws"} :
          sidebar' = [sidebar EXCEPT
            !.fetches[i].done = TRUE,
            !.document = IF outcome = "throws" THEN @
                         ELSE DocumentIdOf[citation],
            !.formattedText =
               [of |-> citation,
                as |-> IF outcome = "lines" THEN "lines" ELSE "normalized"],
            !.error = outcome = "throws",
            !.loading = FALSE]
  /\ UNCHANGED exceptSidebar

\* a chat page with its sidebar closed
InitSidebar ==
  /\ NoMain
  /\ chunking = IdleChunking
  /\ deletion = IdleDeletion
  /\ settings = IdleSettings
  /\ storage = IdleStorage
  /\ toc = IdleToc
  /\ sidebar = [IdleSidebar EXCEPT !.pc = "open"]

NextSidebar ==
  \/ \E citation \in DOMAIN DocumentIdOf : HandleCitationClick(citation)
  \/ CloseSidebar
  \/ \E i \in 1 .. MaxFetches : FetchDocumentReturns(i)

SpecSidebar == InitSidebar /\ [][NextSidebar]_vars

\* ------------------------------------------------------------------ claims
StatusOf(docs, d) == docs[d].metadata.processingStatus

StatusSequence ==
  <<"pending", "uploaded", "processing", "chunking", "embedding", "complete">>

IsSuccessor(old, new) ==
  \E k \in 1 .. (Len(StatusSequence) - 1) :
    StatusSequence[k] = old /\ StatusSequence[k + 1] = new

\* a request that has been received and has not returned
InProgress(r) == runs[r].pc \notin {"idle", "done"}

\* C1: every change of a document's processingStatus is to the immediate
\* successor in pending -> uploaded -> processing -> chunking -> embedding ->
\* complete, or to error
C1_StatusOnlyAdvances ==
  [][\A d \in DOMAIN documents :
       StatusOf(documents', d) # StatusOf(documents, d)
         => \/ StatusOf(documents', d) = "error"
            \/ IsSuccessor(StatusOf(documents, d), StatusOf(documents', d))]_vars

\* C2: a route-handler run whose fetch, extraction or chunking failed leaves
\* the document with processingStatus error, a failure message and an error
\* timestamp, and has stored no chunk
C2_FailureRecordsError ==
  \A r \in Runs :
    (VariantOf(r) = "api" /\ runs[r].pc = "done"
       /\ runs[r].failure \in {"fetch", "parse", "chunk"})
      => /\ StatusOf(documents, runs[r].doc) = "error"
         /\ Has(documents[runs[r].doc].metadata, "processingError")
         /\ Has(documents[runs[r].doc].metadata, "errorTimestamp")
         /\ \A row \in chunks : row.run # r

\* C3: no step of a route-handler run that was invoked on a document whose processingStatus
\* was complete changes the documents table or the chunks table
C3_IngestOnCompleteIsNoOp ==
  [][\A r \in Runs :
       (/\ VariantOf(r) = "api"
        /\ Has(runs[r].snap, "processingStatus")
        /\ runs[r].snap.processingStatus = "complete"
        /\ runs'[r] # runs[r])
         => (documents' = documents /\ chunks' = chunks)]_vars

\* C4: no write to a document's metadata drops a key that is stored in it
C4_MetadataKeysPreserved ==
  [][\A d \in DOMAIN documents :
       DOMAIN documents[d].metadata \subseteq DOMAIN documents'[d].metadata]_vars

\* C5: at most one ingestion run is in progress for a document id
C5_SingleFlight ==
  \A r1, r2 \in Runs :
    (r1 # r2 /\ InProgress(r1) /\ InProgress(r2))
      => runs[r1].doc # runs[r2].doc

\* rows of the chunks table inserted by request r
StoredBy(r) == {row \in chunks : row.run = r}

Finished(run) == {c \in DOMAIN run.task : run.task[c] \in {"ok", "failed"}}

\* the steps of a route-handler run
PostStep(r) == VariantOf(r) = "api" /\ runs'[r] # runs[r]

\* C6: a chunk that fails never takes the run out of the batch loop, and the
\* final write is made with every chunk attempted, exactly the chunks that
\* did not fail stored, and sets processingStatus to complete, whatever the
\* number of failed chunks
C6_ChunkFailuresIsolated ==
  [][\A r \in Runs : PostStep(r) =>
       /\ runs[r].pc = "await" => runs'[r].pc \in {"await", "loop"}
       /\ (runs[r].pc = "loop" /\ runs'[r].pc = "done") =>
            /\ StatusOf(documents', runs[r].doc) = "complete"
            /\ Finished(runs[r]) = 1 .. runs[r].n
            /\ \A c \in 1 .. runs[r].n :
                 runs[r].task[c] = "ok" <=>
                   [document_id |-> runs[r].doc, run |-> r, idx |-> c] \in chunks]_vars

\* C6 witness: the route handler has completed a document all of whose
\* chunks failed
C6_Witness ==
  /\ runs["post"].pc = "done" /\ runs["post"].failure = "none"
  /\ StatusOf(documents, "doc1") = "complete"
  /\ documents["doc1"].metadata.totalChunks = MaxChunks
  /\ documents["doc1"].metadata.successfulChunks = 0
  /\ chunks = {}

\* C7: at most 3 chunks of a run are in flight, and a chunk has been started
\* only if every chunk of the batches of 3 before its own has finished
C7_BatchesOfThree ==
  \A r \in Runs :
    /\ Cardinality({c \in DOMAIN runs[r].task : runs[r].task[c] = "inflight"}) <= 3
    /\ \A c, b \in DOMAIN runs[r].task :
         (runs[r].task[c] # "todo" /\ (b - 1) \div 3 < (c - 1) \div 3)
           => runs[r].task[b] \in {"ok", "failed"}

\* C7 witness: the second batch is in flight after a first batch of three in
\* which a chunk failed
C7_Witness ==
  /\ runs["post"].pc = "await"
  /\ runs["post"].n = 4
  /\ runs["post"].task[4] = "inflight"
  /\ runs["post"].task[2] = "failed"
  /\ runs["post"].task[1] = "ok"

IsRoundedPercent(p, k, total) ==
  2 * total * p <= 200 * k + total /\ 200 * k + total < 2 * total * (p + 1)

ProcessingStates ==
  {"pending", "uploaded", "processing", "chunking", "embedding", "complete",
   "error"}

\* C10: the stored processingStatus of every document is one of the seven
\* states pending, uploaded, processing, chunking, embedding, complete, error
C10_StatusIsOneOfSeven ==
  \A d \in DOMAIN documents : StatusOf(documents, d) \in ProcessingStates

\* C11: an upload whose storage step threw leaves the document in error with
\* a message and a timestamp, never uploaded, and with no ingestion triggered
C11_StorageFailureRecordsError ==
  \A d \in DOMAIN documents :
    uploads[d].pc \in {"failed", "api_failed"}
      => /\ StatusOf(documents, d) = "error"
         /\ Has(documents[d].metadata, "processingError")
         /\ Has(documents[d].metadata, "errorTimestamp")
         /\ runs["trigger"].pc = "idle"

\* C12: when uploadFileDocument has returned and its trigger is still
\* outstanding, the triggered ingestion has not started; the step in which the
\* trigger fails changes no document and leaves the upload successful
C12_UploadReturnsBeforeIngestion ==
  [][\A d \in Docs :
       /\ uploads[d].pc = "uploaded" => runs["trigger"].pc = "idle"
       /\ (uploads[d].pc = "uploaded" /\ uploads'[d].pc # "uploaded"
             /\ runs'["trigger"].pc = "idle")
            => (documents' = documents /\ uploads'[d].pc = "trigger_failed")]_vars

\* C12 witness: the trigger of a returned upload has failed and the document
\* is as the upload left it
C12_Witness ==
  /\ uploads["doc1"].pc = "trigger_failed"
  /\ StatusOf(documents, "doc1") = "uploaded"
  /\ runs["trigger"].pc = "idle"

\* C13: a finished generateEmbedding call returned a vector without an error
\* if some attempt succeeded, and surfaced an error, returning no vector, if
\* every attempt failed
C13_EmbeddingSucceedsOrSurfacesError ==
  embed.pc = "done" =>
    /\ embed.succeeded => embed.result = "vector"
    /\ ~embed.succeeded => embed.result = "error"

\* C14 (as stated): a call whose every attempt failed made MAX_RETRIES
\* attempts, shrank the text and made exactly one more attempt; and no call
\* makes more than MAX_RETRIES + 1 service calls
C14_ShrinkAndOneMoreAttempt ==
  /\ embed.calls <= MAX_RETRIES + 1
  /\ (embed.pc \in {"catch", "done"} /\ ~embed.succeeded) =>
       /\ embed.shrunk
       /\ embed.processedText <= SHORTER_TEXT_LENGTH
       /\ embed.attempts = MAX_RETRIES + 1

\* C14 (amended): a call whose every attempt failed made MAX_RETRIES attempts;
\* if the capped text was longer than 2000 characters it was then shortened
\* to 2000 and one more attempt was made, otherwise no further attempt was
\* made; no call makes more than MAX_RETRIES + 1 service calls, and every
\* call ends
C14_ShrinkOnlyLongText ==
  /\ [](embed.calls <= embed.attempts /\ embed.attempts <= MAX_RETRIES + 1)
  /\ []((embed.pc \in {"catch", "done"} /\ ~embed.succeeded) =>
          IF SubstringLength(embed.text, MAX_TEXT_LENGTH) > SHORTER_TEXT_LENGTH
          THEN /\ embed.shrunk
               /\ embed.processedText = SHORTER_TEXT_LENGTH
               /\ embed.attempts = MAX_RETRIES + 1
          ELSE /\ ~embed.shrunk
               /\ embed.processedText = embed.text
               /\ embed.attempts = MAX_RETRIES)
  /\ <>(embed.pc = "done")

\* C14 witness: a call on a long text gave up after six service calls
C14_Witness ==
  /\ embed.pc = "done"
  /\ ~embed.succeeded
  /\ embed.shrunk
  /\ embed.calls = MAX_RETRIES + 1

\* the positions in the ranking of the chunks of a result list
RankOf(docs) == [i \in 1 .. Len(docs) |-> docs[i].metadata.chunkIndex]

\* the ranks, in order, of the first k chunks among the first n of the store
\* that are not classified as noise
RECURSIVE FirstNotNoise(_, _, _, _)
FirstNotNoise(store, from, n, k) ==
  IF from > n \/ from > Len(store) \/ k = 0 THEN <<>>
  ELSE IF IsLikelyTableOfContents(store[from])
       THEN FirstNotNoise(store, from + 1, n, k)
       ELSE <<from>> \o FirstNotNoise(store, from + 1, n, k - 1)

BracketAt(text, i) ==
  /\ text[i] = "["
  /\ i + 1 <= Len(text) /\ text[i + 1] \in DigitChars
  /\ LET d == RunEnd(text, i + 1, DigitChars)
     IN  d + 1 <= Len(text) /\ text[d + 1] = "]"

\* the citation indices a text references: n - 1 for every [n] in it
ReferencedInText(text) ==
  {ParseInt(SubSeq(text, i + 1, RunEnd(text, i + 1, DigitChars))) - 1 :
     i \in {j \in 1 .. Len(text) : BracketAt(text, j)}}

RECURSIVE CitationsAt(_, _, _)
\* the citations of a list whose indices are in the set, in index order
CitationsAt(list, indices, i) ==
  IF i > Len(list) THEN <<>>
  ELSE (IF (i - 1) \in indices THEN <<list[i]>> ELSE <<>>)
         \o CitationsAt(list, indices, i + 1)

\* C16: the citations a call returns, and the ones listed under Sources, are
\* exactly the citations referenced in the final answer text, in index order
C16_OnlyReferencedCitationsSurface ==
  /\ \A c \in Calls :
       chat[c].pc \in {"returned", "shown"} =>
         chat[c].returned.citations =
           CitationsAt(chat[c].citations,
                       ReferencedInText(chat[c].returned.content), 1)
  /\ view.pc = "rendered" =>
       [i \in 1 .. Len(view.sources) |-> view.sources[i].citation] =
         CitationsAt(view.message.citations.list,
                     ReferencedInText(view.message.content), 1)

\* a completion made of markers, with or without a suffix, and other text
OnlyMarkers(pieces) ==
  \A i \in 1 .. Len(pieces) :
    BadgeNumberAt(pieces[i], 1) \/ pieces[i] = <<"x">>

\* the canonical form of a piece: [k + 1] for a marker of excerpt k
Canonical(piece) ==
  IF BadgeNumberAt(piece, 1)
  THEN Bracketed(
         ParseInt(SubSeq(piece, 4, RunEnd(piece, 4, DigitChars))) + 1)
  ELSE piece

\* C17: in the answer text every marker for excerpt k, with or without a
\* numeric suffix, has become [k + 1] and nothing of it is left
C17_MarkersBecomeCanonical ==
  \A c \in Calls :
    (chat[c].pc \in {"stored", "returned", "shown"}
       /\ OnlyMarkers(chat[c].pieces)) =>
      chat[c].response =
        Flatten([i \in 1 .. Len(chat[c].pieces) |->
                   Canonical(chat[c].pieces[i])])

\* C18: no answer text stored or returned contains CITATION_BADGE
C18_NoMarkerTokenLeft ==
  /\ \A i \in 1 .. Len(messages) : ~IncludesBadge(messages[i].content)
  /\ \A c \in Calls :
       chat[c].pc \in {"returned", "shown"} =>
         ~IncludesBadge(chat[c].returned.content)

\* the sequence occurs in the text
ContainsSeq(text, sub) ==
  \E i \in 1 .. Len(text) :
    i + Len(sub) - 1 <= Len(text) /\ SubSeq(text, i, i + Len(sub) - 1) = sub

\* the text of a rendered paragraph
ParagraphText(paragraph) ==
  Flatten([i \in 1 .. Len(paragraph) |-> paragraph[i].text])

\* C19: a render reads the citation list only inside its bounds; an index
\* taken from the text that is inside the list is resolved to that citation,
\* and one outside it (or with no list) is resolved to nothing and shown as
\* the plain text [index + 1]
C19_RenderStaysInBounds ==
  view.pc = "rendered" =>
    LET citations == view.message.citations
        length == IF citations.isNull THEN 0 ELSE Len(citations.list)
        matches == BadgeNumberMatches(view.message.content, 1)
    IN  /\ \A i \in view.reads : i >= 0 /\ i < length
        /\ \A j \in 1 .. Len(matches) :
             IF matches[j] < length
             THEN \E s \in 1 .. Len(view.sources) :
                    /\ view.sources[s].index = matches[j]
                    /\ view.sources[s].citation
                         = citations.list[matches[j] + 1]
             ELSE /\ \A s \in 1 .. Len(view.sources) :
                       view.sources[s].index # matches[j]
                  /\ ContainsSeq(ParagraphText(view.paragraph),
                                 Bracketed(matches[j] + 1))
        /\ \A j \in 1 .. Len(view.paragraph) :
             view.paragraph[j].badge # -1 =>
               view.paragraph[j].badge < length

\* C19 witness: a message with one citation and markers for excerpts 0 and 2
\* has been rendered: one source, and [3] as text
C19_Witness ==
  /\ view.pc = "rendered"
  /\ view.message.content = MarkerPiece(0) \o MarkerPiece(2)
  /\ ~view.message.citations.isNull
  /\ Len(view.message.citations.list) = 1
  /\ Len(view.sources) = 1
  /\ view.reads = {0}

\* the citations built so far, as pairs of call and index
BuiltCitations ==
  {ci \in Calls \X (1 .. Len(RelevantDocs)) :
     /\ ci[2] <= Len(chat[ci[1]].citations)
     /\ chat[ci[1]].citations[ci[2]] # PendingCitation}

\* C20: any two citations built by the calls of a conversation, in one
\* response or in two, have different identifiers
C20_CitationIdsUnique ==
  \A a, b \in BuiltCitations :
    a # b => chat[a[1]].citations[a[2]].id # chat[b[1]].citations[b[2]].id

\* C21: the originalText stored with a chunk is text of the document as it
\* was before normalisation, verbatim (it occurs in the extracted text),
\* and the citation built from the chunk carries this original text
C21_OriginalTextIsPreNormalization ==
  /\ \A i \in 1 .. Len(chunking.rows) :
       ContainsSeq(chunking.extractedText,
                   chunking.rows[i].metadata.originalText)
  /\ chunking.pc = "cited" =>
       /\ chunking.citation.text = chunking.rows[1].metadata.originalText
       /\ ContainsSeq(chunking.extractedText, chunking.citation.text)

\* C30: normalizeDocumentText applied to its own output returns that
\* output, and the rules applied again by the chunk preprocessing leave
\* the normalised content as it is
C30_NormalizeIdempotent ==
  chunking.pc \in {"normalized", "chunked", "stored", "cited"} =>
    /\ NormalizeDocumentText(chunking.content) = chunking.content
    /\ PreprocessDocumentText(chunking.content) = chunking.content

\* C22: no chunk references a document that has no row, whatever the
\* interleaving of deleteDocument with a run inserting chunks for the same
\* document, and once deleteDocument(id) has succeeded no chunk has
\* document_id = id
C22_NoChunkOfDeletedDocument ==
  /\ \A c \in chunks : c.document_id \in DOMAIN documents
  /\ deletion.pc = "done" =>
       \A c \in chunks : c.document_id # deletion.id

\* C22 witness: the call succeeded although the run inserted chunks after
\* the call had deleted the chunks: the cascade removed them, and an insert
\* that came after the row was gone was refused; the other document kept
\* its chunks
C22_Witness ==
  /\ deletion.pc = "done"
  /\ deletion.cascaded > 0
  /\ deletion.refused > 0
  /\ \E c \in chunks : c.document_id = "doc2"

C24_UploadIgnoresOtherRequests ==
  \A r \in Requests :
    storage.requests[r].pc \in {"uploaded", "failed"} =>
      /\ storage.requests[r].initialized = "primary" =>
           storage.requests[r].store \in {"primary", "fallback"}
      /\ storage.requests[r].initialized = "mock" =>
           storage.requests[r].store = "mock"

\* the text is a table of contents: three lines or more, each of title
\* words followed by a page number
IsContentsBlock(lines) ==
  /\ Len(lines) >= 3
  /\ \A i \in 1 .. Len(lines) :
       /\ Len(lines[i]) >= 2
       /\ lines[i][Len(lines[i])] \in Numbers
       /\ \A j \in 1 .. Len(lines[i]) - 1 : lines[i][j] \notin Numbers

\* the text is one paragraph of words, no number in it
IsProse(lines) ==
  /\ Len(lines) = 1
  /\ \A j \in 1 .. Len(lines[1]) : ~HasDigit(lines[1][j])

\* C25: the filters take a table-of-contents block of three or more
\* entries, each of title words and a page number, for noise, and keep an
\* ordinary paragraph of prose
C25_ContentsIsNoiseProseIsKept ==
  toc.pc = "filtered" =>
    /\ IsContentsBlock(toc.lines) => ~toc.kept
    /\ IsProse(toc.lines) => toc.kept

\* the document has a row whose processingStatus is one of the statuses
StatusIn(d, statuses) ==
  /\ d \in DOMAIN documents
  /\ Has(documents[d].metadata, "processingStatus")
  /\ StatusOf(documents, d) \in statuses

\* C26: a document that a run has set to processing, chunking or embedding
\* is eventually complete or in error
C26_ProcessingEnds ==
  \A d \in Docs :
    StatusIn(d, {"processing", "chunking", "embedding"})
      ~> StatusIn(d, {"complete", "error"})

\* C27: a generateChatResponse call that has failed has stored no assistant
\* message and has left the conversation's title and updated_at as they
\* were
C27_FailedCallPersistsNothing ==
  \A c \in Calls :
    chat[c].pc = "failed" =>
      /\ messages = <<>>
      /\ conversation = [title |-> "New Conversation", updated_at |-> 0]

\* C29: once a generateChatResponse call of the conversation has returned,
\* no step of a later call changes the conversation's title
C29_TitleFromFirstMessageOnly ==
  [][(\E c \in Calls : chat[c].pc \in {"returned", "shown"})
       => conversation'.title = conversation.title]_vars

\* C28: once no document fetch is in flight, the text and the document the
\* sidebar shows are those of the active citation
C28_SidebarShowsActiveCitation ==
  (/\ sidebar.citation # "none"
   /\ \A i \in 1 .. Len(sidebar.fetches) : sidebar.fetches[i].done)
  => /\ sidebar.formattedText.of = sidebar.citation
     /\ sidebar.document \in {"none", DocumentIdOf[sidebar.citation]}
====
